---------------------------- MODULE Spec2Model ----------------------------
(***************************************************************************)
(* Incremental Delaunay construction of cVoronoi (delaunay2d.h,            *)
(* delaunay3d.h, geometry3d.h) as a state machine.                         *)
(*                                                                         *)
(* A run builds one tessellation, either the 2D one (struct delaunay of    *)
(* delaunay2d.h, held in d2) or the 3D one (struct delaunay of             *)
(* delaunay3d.h, held in d3).  The call in progress and its local          *)
(* variables are held in frame; frame.pc is the position inside            *)
(* delaunay_add_vertex: "idle" (no call in progress), "locate" (the point  *)
(* location walk), "split" (the insertion flip), "check" (the loop of      *)
(* delaunay_check_triangles / delaunay_check_tetrahedra) and "abort" (the   *)
(* call does not return: abort(), a failed assertion, or a read or write   *)
(* outside the arrays, after which nothing is known).                      *)
(*                                                                         *)
(* cases and rounds are history variables: the splits and flips applied so *)
(* far by the call of delaunay_add_vertex in progress or, between calls,   *)
(* by the last one, and the number of steps that call has taken.           *)
(*                                                                         *)
(* Arrays are functions over 0..n-1 so that the index arithmetic of the    *)
(* source ((i + 1) % 3, 6 - a - b - c, ...) is kept as written.            *)
(* Coordinates are expressed in grid units: one unit of the integer grid   *)
(* on which the exact predicates work.                                     *)
(***************************************************************************)
EXTENDS Integers, Sequences, FiniteSets, TLC

VARIABLES dim, d2, d3, frame, cases, rounds, vor, geo

vars == <<dim, d2, d3, frame, cases, rounds, vor, geo>>

-----------------------------------------------------------------------------
(* Bounds of the model *)

\* side of the hydro space (hs->side, all axes), in grid units
HsSide == 2

\* number of vertices inserted in one run
MaxInsert == 4

\* initial capacity of the vertex array (argument vertex_size of delaunay_init)
InitVertexSize == 1

\* number of steps followed inside one call of delaunay_add_vertex; a call
\* that has taken that many steps is not followed further
MaxRounds == 80

\* initial capacity of the simplex array (argument triangle_size /
\* tetrahedron_size of delaunay_init)
InitSimplexSize == 4

\* initial capacity of the vertex array, and number of generators, of the
\* tessellation handed to voronoi_init
VoronoiVertexSize == 2

\* the integer coefficients tried for a linear relation between three
\* vectors are those of -MaxCoefficient..MaxCoefficient
MaxCoefficient == 2

\* the points handed to delaunay_test_point_inside_triangle on its own have
\* integer coordinates in 0..MaxGrid
MaxGrid == 2

-----------------------------------------------------------------------------
(* Generic helpers *)

Sgn(x) == IF x > 0 THEN 1 ELSE IF x < 0 THEN -1 ELSE 0

Arr2(a, b) == [i \in 0..1 |-> IF i = 0 THEN a ELSE b]

Arr3(a, b, c) == [i \in 0..2 |-> IF i = 0 THEN a ELSE IF i = 1 THEN b ELSE c]

Arr4(a, b, c, e) ==
  [i \in 0..3 |-> IF i = 0 THEN a ELSE IF i = 1 THEN b ELSE IF i = 2 THEN c ELSE e]

\* an array grown by one element (index n) holding x
Append0(f, n, x) == [i \in 0..n |-> IF i = n THEN x ELSE f[i]]

\* the last element of a non-empty sequence and the sequence without it
Last(s) == s[Len(s)]

Front(s) == SubSeq(s, 1, Len(s) - 1)

Min(S) == CHOOSE x \in S : \A y \in S : x <= y

\* value of a never written memory cell
Uninit == -2

-----------------------------------------------------------------------------
(* Exact predicates, 2D *)

\* sign of the determinant of [b - a; c - a]: positive iff a, b, c are in
\* counterclockwise order
geometry2d_orient_exact(ax, ay, bx, by, cx, cy) ==
  Sgn((bx - ax) * (cy - ay) - (by - ay) * (cx - ax))

\* sign of the lifting determinant of (a - d, b - d, c - d): positive iff d is
\* strictly inside the circle through the counterclockwise a, b, c
geometry2d_in_sphere_exact(ax, ay, bx, by, cx, cy, dx, dy) ==
  LET s1x == ax - dx  s1y == ay - dy
      s2x == bx - dx  s2y == by - dy
      s3x == cx - dx  s3y == cy - dy
      n1 == s1x * s1x + s1y * s1y
      n2 == s2x * s2x + s2y * s2y
      n3 == s3x * s3x + s3y * s3y
  IN Sgn(  s1x * (s2y * n3 - n2 * s3y)
         - s1y * (s2x * n3 - n2 * s3x)
         + n1 * (s2x * s3y - s2y * s3x))

-----------------------------------------------------------------------------
(* Exact predicates, 3D (geometry3d.h) *)

geometry_orient_exact(ax, ay, az, bx, by, bz, cx, cy, cz, dx, dy, dz) ==
  LET s1x == ax - dx  s1y == ay - dy  s1z == az - dz
      s2x == bx - dx  s2y == by - dy  s2z == bz - dz
      s3x == cx - dx  s3y == cy - dy  s3z == cz - dz
      r1 == s1z * (s2x * s3y - s3x * s2y)
      r2 == s2z * (s3x * s1y - s1x * s3y)
      r3 == s3z * (s1x * s2y - s2x * s1y)
  IN Sgn(r1 + r2 + r3)

geometry_in_sphere_exact(ax, ay, az, bx, by, bz, cx, cy, cz, dx, dy, dz, ex, ey, ez) ==
  LET s1x == ax - ex  s1y == ay - ey  s1z == az - ez
      s2x == bx - ex  s2y == by - ey  s2z == bz - ez
      s3x == cx - ex  s3y == cy - ey  s3z == cz - ez
      s4x == dx - ex  s4y == dy - ey  s4z == dz - ez
      ab == s1x * s2y - s2x * s1y
      bc == s2x * s3y - s3x * s2y
      cd == s3x * s4y - s4x * s3y
      da == s4x * s1y - s1x * s4y
      ac == s1x * s3y - s3x * s1y
      bd == s2x * s4y - s4x * s2y
      t4 == (s4x * s4x + s4y * s4y + s4z * s4z)
              * (s1z * bc - s2z * ac + s3z * ab)
      t3 == (s3x * s3x + s3y * s3y + s3z * s3z)
              * (s4z * ab + s1z * bd + s2z * da)
      t2 == (s2x * s2x + s2y * s2y + s2z * s2z)
              * (s3z * da + s4z * ac + s1z * cd)
      t1 == (s1x * s1x + s1y * s1y + s1z * s1z)
              * (s2z * cd - s3z * bd + s4z * bc)
  IN Sgn(t4 - t3 + t2 - t1)


(* struct geometry: the arbitrary precision variables the exact tests work  *)
(* in, kept between the calls.  A geometry object is a function from the    *)
(* names of the variables to their values; a test is the list of the gmp    *)
(* calls it makes, <<call, rop, op1, op2>>, applied in order.               *)

GeometryFields ==
  {"aix", "aiy", "aiz", "bix", "biy", "biz", "cix", "ciy", "ciz", "dix", "diy",
   "diz", "eix", "eiy", "eiz", "s1x", "s1y", "s1z", "s2x", "s2y", "s2z", "s3x",
   "s3y", "s3z", "s4x", "s4y", "s4z", "tmp1", "tmp2", "ab", "bc", "cd", "da",
   "ac", "bd", "result"}

\* mpz_inits sets every variable to 0
geometry_init == [f \in GeometryFields |-> 0]

\* mpz_set_ui(rop, n), mpz_sub(rop, op1, op2), mpz_mul(rop, op1, op2),
\* mpz_addmul(rop, op1, op2), mpz_submul(rop, op1, op2)
mpz_call(g, c) ==
  CASE c[1] = "set_ui" -> [g EXCEPT ![c[2]] = c[3]]
    [] c[1] = "sub" -> [g EXCEPT ![c[2]] = g[c[3]] - g[c[4]]]
    [] c[1] = "mul" -> [g EXCEPT ![c[2]] = g[c[3]] * g[c[4]]]
    [] c[1] = "addmul" -> [g EXCEPT ![c[2]] = @ + g[c[3]] * g[c[4]]]
    [] c[1] = "submul" -> [g EXCEPT ![c[2]] = @ - g[c[3]] * g[c[4]]]

\* the calls cs made in order: the first half, then the second half
RECURSIVE mpz_calls(_, _)
mpz_calls(g, cs) ==
  IF cs = <<>> THEN g
  ELSE IF Len(cs) = 1 THEN mpz_call(g, cs[1])
  ELSE LET k == Len(cs) \div 2
           h == mpz_calls(g, SubSeq(cs, 1, k))
       \* the object after the first half is worked out before the second
       \* half is applied to it
       IN IF DOMAIN h = GeometryFields
            THEN mpz_calls(h, SubSeq(cs, k + 1, Len(cs)))
            ELSE h

mpz_sgn(g, op) == Sgn(g[op])

\* "store the input coordinates into the temporary large integer variables"
geometry_store(name, x, y, z) ==
  <<<<"set_ui", name \o "x", x, 0>>, <<"set_ui", name \o "y", y, 0>>,
    <<"set_ui", name \o "z", z, 0>>>>

\* "compute large integer relative coordinates": s = p - q
geometry_relative(s, p, q) ==
  <<<<"sub", s \o "x", p \o "x", q \o "x">>, <<"sub", s \o "y", p \o "y", q \o "y">>,
    <<"sub", s \o "z", p \o "z", q \o "z">>>>

\* the 3 steps of geometry_orient_exact without the reset of result
orient_exact_result_not_reset ==
  <<<<"mul", "tmp1", "s2x", "s3y">>, <<"submul", "tmp1", "s3x", "s2y">>,
    <<"addmul", "result", "s1z", "tmp1">>,
    <<"mul", "tmp1", "s3x", "s1y">>, <<"submul", "tmp1", "s1x", "s3y">>,
    <<"addmul", "result", "s2z", "tmp1">>,
    <<"mul", "tmp1", "s1x", "s2y">>, <<"submul", "tmp1", "s2x", "s1y">>,
    <<"addmul", "result", "s3z", "tmp1">>>>

\* "Compute the result in 3 steps"
orient_exact_result ==
  <<<<"set_ui", "result", 0, 0>>,
    <<"mul", "tmp1", "s2x", "s3y">>, <<"submul", "tmp1", "s3x", "s2y">>,
    <<"addmul", "result", "s1z", "tmp1">>,
    <<"mul", "tmp1", "s3x", "s1y">>, <<"submul", "tmp1", "s1x", "s3y">>,
    <<"addmul", "result", "s2z", "tmp1">>,
    <<"mul", "tmp1", "s1x", "s2y">>, <<"submul", "tmp1", "s2x", "s1y">>,
    <<"addmul", "result", "s3z", "tmp1">>>>

\* geometry_orient_exact(g, ...): the geometry object it leaves and the sign
\* it returns
geometry_orient_exact_call(g, ax, ay, az, bx, by, bz, cx, cy, cz, dx, dy, dz) ==
  LET h == mpz_calls(g, geometry_store("ai", ax, ay, az)
                          \o geometry_store("bi", bx, by, bz)
                          \o geometry_store("ci", cx, cy, cz)
                          \o geometry_store("di", dx, dy, dz)
                          \o geometry_relative("s1", "ai", "di")
                          \o geometry_relative("s2", "bi", "di")
                          \o geometry_relative("s3", "ci", "di")
                          \o orient_exact_result)
  IN [g |-> h, sign |-> mpz_sgn(h, "result")]

\* "compute intermediate values"
in_sphere_exact_intermediate ==
  <<<<"mul", "ab", "s1x", "s2y">>, <<"submul", "ab", "s2x", "s1y">>,
    <<"mul", "bc", "s2x", "s3y">>, <<"submul", "bc", "s3x", "s2y">>,
    <<"mul", "cd", "s3x", "s4y">>, <<"submul", "cd", "s4x", "s3y">>,
    <<"mul", "da", "s4x", "s1y">>, <<"submul", "da", "s1x", "s4y">>,
    <<"mul", "ac", "s1x", "s3y">>, <<"submul", "ac", "s3x", "s1y">>,
    <<"mul", "bd", "s2x", "s4y">>, <<"submul", "bd", "s4x", "s2y">>>>

\* the 4 steps of geometry_in_sphere_exact with the third term subtracted
\* like the second
in_sphere_exact_result_third_subtracted ==
  <<<<"set_ui", "result", 0, 0>>,
    <<"mul", "tmp1", "s4x", "s4x">>, <<"addmul", "tmp1", "s4y", "s4y">>,
    <<"addmul", "tmp1", "s4z", "s4z">>,
    <<"mul", "tmp2", "s1z", "bc">>, <<"submul", "tmp2", "s2z", "ac">>,
    <<"addmul", "tmp2", "s3z", "ab">>,
    <<"addmul", "result", "tmp1", "tmp2">>,
    <<"mul", "tmp1", "s3x", "s3x">>, <<"addmul", "tmp1", "s3y", "s3y">>,
    <<"addmul", "tmp1", "s3z", "s3z">>,
    <<"mul", "tmp2", "s4z", "ab">>, <<"addmul", "tmp2", "s1z", "bd">>,
    <<"addmul", "tmp2", "s2z", "da">>,
    <<"submul", "result", "tmp1", "tmp2">>,
    <<"mul", "tmp1", "s2x", "s2x">>, <<"addmul", "tmp1", "s2y", "s2y">>,
    <<"addmul", "tmp1", "s2z", "s2z">>,
    <<"mul", "tmp2", "s3z", "da">>, <<"addmul", "tmp2", "s4z", "ac">>,
    <<"addmul", "tmp2", "s1z", "cd">>,
    <<"submul", "result", "tmp1", "tmp2">>,
    <<"mul", "tmp1", "s1x", "s1x">>, <<"addmul", "tmp1", "s1y", "s1y">>,
    <<"addmul", "tmp1", "s1z", "s1z">>,
    <<"mul", "tmp2", "s2z", "cd">>, <<"submul", "tmp2", "s3z", "bd">>,
    <<"addmul", "tmp2", "s4z", "bc">>,
    <<"submul", "result", "tmp1", "tmp2">>>>

\* "compute the result in 4 steps"
in_sphere_exact_result ==
  <<<<"set_ui", "result", 0, 0>>,
    <<"mul", "tmp1", "s4x", "s4x">>, <<"addmul", "tmp1", "s4y", "s4y">>,
    <<"addmul", "tmp1", "s4z", "s4z">>,
    <<"mul", "tmp2", "s1z", "bc">>, <<"submul", "tmp2", "s2z", "ac">>,
    <<"addmul", "tmp2", "s3z", "ab">>,
    <<"addmul", "result", "tmp1", "tmp2">>,
    <<"mul", "tmp1", "s3x", "s3x">>, <<"addmul", "tmp1", "s3y", "s3y">>,
    <<"addmul", "tmp1", "s3z", "s3z">>,
    <<"mul", "tmp2", "s4z", "ab">>, <<"addmul", "tmp2", "s1z", "bd">>,
    <<"addmul", "tmp2", "s2z", "da">>,
    <<"submul", "result", "tmp1", "tmp2">>,
    <<"mul", "tmp1", "s2x", "s2x">>, <<"addmul", "tmp1", "s2y", "s2y">>,
    <<"addmul", "tmp1", "s2z", "s2z">>,
    <<"mul", "tmp2", "s3z", "da">>, <<"addmul", "tmp2", "s4z", "ac">>,
    <<"addmul", "tmp2", "s1z", "cd">>,
    <<"addmul", "result", "tmp1", "tmp2">>,
    <<"mul", "tmp1", "s1x", "s1x">>, <<"addmul", "tmp1", "s1y", "s1y">>,
    <<"addmul", "tmp1", "s1z", "s1z">>,
    <<"mul", "tmp2", "s2z", "cd">>, <<"submul", "tmp2", "s3z", "bd">>,
    <<"addmul", "tmp2", "s4z", "bc">>,
    <<"submul", "result", "tmp1", "tmp2">>>>

\* geometry_in_sphere_exact(g, ...): the geometry object it leaves and the
\* sign it returns
geometry_in_sphere_exact_call(g, ax, ay, az, bx, by, bz, cx, cy, cz, dx, dy, dz, ex, ey, ez) ==
  LET h == mpz_calls(g, geometry_store("ai", ax, ay, az)
                          \o geometry_store("bi", bx, by, bz)
                          \o geometry_store("ci", cx, cy, cz)
                          \o geometry_store("di", dx, dy, dz)
                          \o geometry_store("ei", ex, ey, ez)
                          \o geometry_relative("s1", "ai", "ei")
                          \o geometry_relative("s2", "bi", "ei")
                          \o geometry_relative("s3", "ci", "ei")
                          \o geometry_relative("s4", "di", "ei")
                          \o in_sphere_exact_intermediate
                          \o in_sphere_exact_result)
  IN [g |-> h, sign |-> mpz_sgn(h, "result")]

-----------------------------------------------------------------------------
(* The caller's side: the hydro space and the points it hands over.        *)
(* hs->anchor is the origin and hs->side is HsSide on every axis; a point  *)
(* is given by its coordinates in grid units.                              *)

hs_anchor == 0

\* local variables of a call of delaunay_add_vertex, none in progress
IdleFrame ==
  [pc |-> "idle", v |-> -1, t0 |-> -1, t1 |-> -1, ngb_index |-> -1,
   flag |-> 0, count |-> 0, first |-> FALSE, freed |-> <<>>]

AbortFrame == [IdleFrame EXCEPT !.pc = "abort"]

-----------------------------------------------------------------------------
(* struct triangle (triangle.h) *)

triangle_init(v0, v1, v2) ==
  [vertices |-> Arr3(v0, v1, v2),
   neighbours |-> Arr3(-1, -1, -1),
   index_in_neighbour |-> Arr3(-1, -1, -1)]

triangle_swap_neighbour(T, index, neighbour, index_in_neighbour) ==
  [T EXCEPT !.neighbours[index] = neighbour,
            !.index_in_neighbour[index] = index_in_neighbour]

\* triangle_init(&d->triangles[t], v0, v1, v2)
TriInit(d, t, v0, v1, v2) ==
  [d EXCEPT !.triangles[t] = triangle_init(v0, v1, v2)]

\* triangle_swap_neighbour(&d->triangles[t], index, neighbour, index_in_neighbour)
TriSwap(d, t, index, neighbour, index_in_neighbour) ==
  [d EXCEPT !.triangles[t] =
     triangle_swap_neighbour(@, index, neighbour, index_in_neighbour)]

-----------------------------------------------------------------------------
(* delaunay2d.h *)

\* the rescaled coordinate 1 + (x - anchor) * inverse_side lies in [1, 2[ iff
\* 0 <= x - anchor <= box_side (inverse_side is (1 - 1e-13) / box_side)
rescaled_in_range_2d(d, x) ==
  x - d.anchor >= 0 /\ x - d.anchor <= d.box_side

\* the four assertions of delaunay_init_vertex
vertex_accepted_2d(d, x, y) ==
  rescaled_in_range_2d(d, x) /\ rescaled_in_range_2d(d, y)

(* A radius is a double that the code obtains as a square root; it is kept *)
(* as the fraction <<n, m>> that is its square, n / m, so that radii are    *)
(* compared exactly.                                                        *)

(* The fraction is kept in lowest terms, so that equal radii are equal     *)
(* values, and two fractions are compared by their continued fractions,    *)
(* which needs no product of a numerator and a denominator.                *)

RECURSIVE GCD(_, _)
GCD(a, b) == IF b = 0 THEN a ELSE GCD(b, a % b)

radius_reduced(n, m) == LET g == GCD(n, m) IN <<n \div g, m \div g>>

\* the largest double: greater than every radius of the tessellation
DBL_MAX == <<1, 0>>

\* the radius r given in grid units
radius_of(r) == <<r * r, 1>>

\* k times the radius p
radius_times(k, p) ==
  LET g == GCD(k * k, p[2]) IN <<((k * k) \div g) * p[1], p[2] \div g>>

\* a / b > c / e for a, c >= 0 and b, e > 0
RECURSIVE fraction_gt(_, _, _, _)
fraction_gt(a, b, c, e) ==
  IF a \div b # c \div e THEN a \div b > c \div e
  ELSE IF a % b = 0 THEN FALSE
  ELSE IF c % e = 0 THEN TRUE
  ELSE fraction_gt(e, c % e, b, a % b)

\* p > q
radius_gt(p, q) ==
  IF p[2] = 0 THEN q[2] # 0
  ELSE IF q[2] = 0 THEN FALSE
  ELSE fraction_gt(p[1], p[2], q[1], q[2])

fmax(p, q) == IF radius_gt(q, p) THEN q ELSE p

\* the integer coordinate is linear in x - anchor; the grid unit is chosen so
\* that it is x - anchor itself
delaunay_init_vertex_2d(d, v, x, y) ==
  [d EXCEPT !.integer_vertices[v] = <<x - d.anchor, y - d.anchor>>,
            !.vertex_triangles[v] = -1,
            !.vertex_triangle_index[v] = -1,
            !.search_radii[v] = DBL_MAX]

\* the arrays that have handed out an index at or beyond their capacity, after
\* array name has handed out index with that capacity (a record of the run,
\* not a field of the code)
returned(overrun, name, index, capacity) ==
  IF index < capacity THEN overrun ELSE overrun \cup {name}

\* the vertex arrays after growing them to hold index n (realloc keeps the
\* old content, the new cells are never written)
delaunay_new_vertex_2d(d, x, y) ==
  LET v == d.vertex_index
      grown ==
        [d EXCEPT !.vertex_size = IF v = @ THEN 2 * @ ELSE @,
                  !.integer_vertices = Append0(@, v, <<>>),
                  !.vertex_triangles = Append0(@, v, Uninit),
                  !.vertex_triangle_index = Append0(@, v, Uninit),
                  !.search_radii = Append0(@, v, Uninit)]
  IN [delaunay_init_vertex_2d(grown, v, x, y)
        EXCEPT !.vertex_index = v + 1,
               !.overrun = returned(@, "vertices", v, grown.vertex_size)]

delaunay_new_triangle(d) ==
  LET t == d.triangle_index
      size == IF t = d.triangle_size THEN 2 * d.triangle_size ELSE d.triangle_size
  IN [d EXCEPT !.triangle_size = size,
               !.triangles = Append0(@, t, triangle_init(Uninit, Uninit, Uninit)),
               !.triangle_index = t + 1,
               !.overrun = returned(@, "triangles", t, size)]

delaunay_enqueue(d, t) == [d EXCEPT !.queue = Append(@, t)]

\* delaunay_init that makes dummy k the neighbour in slot k of the first
\* triangle
delaunay_init_2d_dummies_in_slot_order(vertex_size, triangle_size) ==
  LET box_anchor == hs_anchor - HsSide
      box_side == 6 * HsSide
      e0 == [anchor |-> box_anchor,
             box_side |-> box_side,
             integer_vertices |-> [i \in 0..(vertex_size - 1) |-> <<>>],
             vertex_triangles |-> [i \in 0..(vertex_size - 1) |-> Uninit],
             vertex_triangle_index |-> [i \in 0..(vertex_size - 1) |-> Uninit],
             search_radii |-> [i \in 0..(vertex_size - 1) |-> Uninit],
             vertex_index |-> vertex_size,
             vertex_size |-> vertex_size,
             vertex_start |-> 0,
             vertex_end |-> vertex_size,
             ghost_offset |-> 0,
             triangles |-> [i \in {} |-> 0],
             triangle_index |-> 0,
             triangle_size |-> triangle_size,
             queue |-> <<>>,
             last_triangle |-> Uninit,
             overrun |-> {}]
      v0 == e0.vertex_index
      e1 == delaunay_new_vertex_2d(e0, box_anchor, box_anchor)
      v1 == e1.vertex_index
      e2 == delaunay_new_vertex_2d(e1, box_anchor + box_side, box_anchor)
      v2 == e2.vertex_index
      e3 == delaunay_new_vertex_2d(e2, box_anchor, box_anchor + box_side)
      dummy0 == e3.triangle_index
      e4 == delaunay_new_triangle(e3)
      dummy1 == e4.triangle_index
      e5 == delaunay_new_triangle(e4)
      dummy2 == e5.triangle_index
      e6 == delaunay_new_triangle(e5)
      first_triangle == e6.triangle_index
      e7 == delaunay_new_triangle(e6)
      e8 == TriSwap(TriInit(e7, dummy0, v1, v0, -1), dummy0, 2, first_triangle, 0)
      e9 == TriSwap(TriInit(e8, dummy1, v2, v1, -1), dummy1, 2, first_triangle, 1)
      e10 == TriSwap(TriInit(e9, dummy2, v0, v2, -1), dummy2, 2, first_triangle, 2)
      e11 == TriInit(e10, first_triangle, v0, v1, v2)
      e12 == TriSwap(e11, first_triangle, 0, dummy0, 2)
      e13 == TriSwap(e12, first_triangle, 1, dummy1, 2)
      e14 == TriSwap(e13, first_triangle, 2, dummy2, 2)
  IN [e14 EXCEPT !.vertex_triangles[v0] = first_triangle,
                 !.vertex_triangle_index[v0] = 0,
                 !.vertex_triangles[v1] = first_triangle,
                 !.vertex_triangle_index[v1] = 1,
                 !.vertex_triangles[v2] = first_triangle,
                 !.vertex_triangle_index[v2] = 2,
                 !.last_triangle = first_triangle]

delaunay_init_2d(vertex_size, triangle_size) ==
  LET box_anchor == hs_anchor - HsSide
      box_side == 6 * HsSide
      e0 == [anchor |-> box_anchor,
             box_side |-> box_side,
             integer_vertices |-> [i \in 0..(vertex_size - 1) |-> <<>>],
             vertex_triangles |-> [i \in 0..(vertex_size - 1) |-> Uninit],
             vertex_triangle_index |-> [i \in 0..(vertex_size - 1) |-> Uninit],
             search_radii |-> [i \in 0..(vertex_size - 1) |-> Uninit],
             vertex_index |-> vertex_size,
             vertex_size |-> vertex_size,
             vertex_start |-> 0,
             vertex_end |-> vertex_size,
             ghost_offset |-> 0,
             triangles |-> [i \in {} |-> 0],
             triangle_index |-> 0,
             triangle_size |-> triangle_size,
             queue |-> <<>>,
             last_triangle |-> Uninit,
             overrun |-> {}]
      v0 == e0.vertex_index
      e1 == delaunay_new_vertex_2d(e0, box_anchor, box_anchor)
      v1 == e1.vertex_index
      e2 == delaunay_new_vertex_2d(e1, box_anchor + box_side, box_anchor)
      v2 == e2.vertex_index
      e3 == delaunay_new_vertex_2d(e2, box_anchor, box_anchor + box_side)
      dummy0 == e3.triangle_index
      e4 == delaunay_new_triangle(e3)
      dummy1 == e4.triangle_index
      e5 == delaunay_new_triangle(e4)
      dummy2 == e5.triangle_index
      e6 == delaunay_new_triangle(e5)
      first_triangle == e6.triangle_index
      e7 == delaunay_new_triangle(e6)
      e8 == TriSwap(TriInit(e7, dummy0, v1, v0, -1), dummy0, 2, first_triangle, 2)
      e9 == TriSwap(TriInit(e8, dummy1, v2, v1, -1), dummy1, 2, first_triangle, 0)
      e10 == TriSwap(TriInit(e9, dummy2, v0, v2, -1), dummy2, 2, first_triangle, 1)
      e11 == TriInit(e10, first_triangle, v0, v1, v2)
      e12 == TriSwap(e11, first_triangle, 0, dummy1, 2)
      e13 == TriSwap(e12, first_triangle, 1, dummy2, 2)
      e14 == TriSwap(e13, first_triangle, 2, dummy0, 2)
  IN [e14 EXCEPT !.vertex_triangles[v0] = first_triangle,
                 !.vertex_triangle_index[v0] = 0,
                 !.vertex_triangles[v1] = first_triangle,
                 !.vertex_triangle_index[v1] = 1,
                 !.vertex_triangles[v2] = first_triangle,
                 !.vertex_triangle_index[v2] = 2,
                 !.last_triangle = first_triangle]

\* rand() % 2 is the argument choice
delaunay_choose(ngb0, ngb1, choice) == IF choice # 0 THEN ngb0 ELSE ngb1

\* delaunay_test_point_inside_triangle with the choice of cases 4 and 8 pasted
\* into cases 1 and 2
delaunay_test_point_inside_triangle_first_cases_pasted(d, v, t, ngb_index, choice) ==
  IF ~(t > 2) THEN [flag |-> -2, t_new |-> t, ngb_index |-> ngb_index] ELSE
  LET T == d.triangles[t]
      a == d.integer_vertices[v]
      b == d.integer_vertices[T.vertices[0]]
      c == d.integer_vertices[T.vertices[1]]
      e == d.integer_vertices[T.vertices[2]]
      testi0 == geometry2d_orient_exact(c[1], c[2], e[1], e[2], a[1], a[2])
      testi1 == geometry2d_orient_exact(e[1], e[2], b[1], b[2], a[1], a[2])
      testi2 == geometry2d_orient_exact(b[1], b[2], c[1], c[2], a[1], a[2])
      testsum == (testi0 + 1) * 16 + (testi1 + 1) * 4 + (testi2 + 1)
      go(n) == [flag |-> 0, t_new |-> n, ngb_index |-> ngb_index]
      on(i) == [flag |-> 2, t_new |-> T.neighbours[i], ngb_index |-> i]
  IN CASE testsum \in {1, 2} ->
            go(delaunay_choose(T.neighbours[0], T.neighbours[2], choice))
       [] testsum \in {4, 8} ->
            go(delaunay_choose(T.neighbours[0], T.neighbours[2], choice))
       [] testsum \in {5, 6, 9, 10} -> go(T.neighbours[0])
       [] testsum \in {16, 32} ->
            go(delaunay_choose(T.neighbours[1], T.neighbours[2], choice))
       [] testsum \in {17, 18, 33, 34} -> go(T.neighbours[1])
       [] testsum \in {20, 24, 36, 40} -> go(T.neighbours[2])
       [] testsum = 26 -> on(0)
       [] testsum = 38 -> on(1)
       [] testsum = 41 -> on(2)
       [] testsum = 42 -> [flag |-> 1, t_new |-> t, ngb_index |-> ngb_index]
       [] OTHER -> [flag |-> -1, t_new |-> t, ngb_index |-> ngb_index]

\* Returns the flag together with *t_new and *ngb_index.  flag -1 stands for
\* abort(); a test of a dummy triangle reads vertex -1 and is reported as
\* flag -2 (the assertion t > 2 fails or, without assertions, the
\* coordinates of vertex -1 are read from outside the vertex array).
delaunay_test_point_inside_triangle(d, v, t, ngb_index, choice) ==
  IF ~(t > 2) THEN [flag |-> -2, t_new |-> t, ngb_index |-> ngb_index] ELSE
  LET T == d.triangles[t]
      a == d.integer_vertices[v]
      b == d.integer_vertices[T.vertices[0]]
      c == d.integer_vertices[T.vertices[1]]
      e == d.integer_vertices[T.vertices[2]]
      testi0 == geometry2d_orient_exact(c[1], c[2], e[1], e[2], a[1], a[2])
      testi1 == geometry2d_orient_exact(e[1], e[2], b[1], b[2], a[1], a[2])
      testi2 == geometry2d_orient_exact(b[1], b[2], c[1], c[2], a[1], a[2])
      testsum == (testi0 + 1) * 16 + (testi1 + 1) * 4 + (testi2 + 1)
      go(n) == [flag |-> 0, t_new |-> n, ngb_index |-> ngb_index]
      on(i) == [flag |-> 2, t_new |-> T.neighbours[i], ngb_index |-> i]
  IN CASE testsum \in {1, 2} ->
            go(delaunay_choose(T.neighbours[0], T.neighbours[1], choice))
       [] testsum \in {4, 8} ->
            go(delaunay_choose(T.neighbours[0], T.neighbours[2], choice))
       [] testsum \in {5, 6, 9, 10} -> go(T.neighbours[0])
       [] testsum \in {16, 32} ->
            go(delaunay_choose(T.neighbours[1], T.neighbours[2], choice))
       [] testsum \in {17, 18, 33, 34} -> go(T.neighbours[1])
       [] testsum \in {20, 24, 36, 40} -> go(T.neighbours[2])
       [] testsum = 26 -> on(0)
       [] testsum = 38 -> on(1)
       [] testsum = 41 -> on(2)
       [] testsum = 42 -> [flag |-> 1, t_new |-> t, ngb_index |-> ngb_index]
       [] OTHER -> [flag |-> -1, t_new |-> t, ngb_index |-> ngb_index]

\* check_triangle_test against the first vertex of the neighbour, whichever
\* of its vertices is opposite the shared edge
check_triangle_test_first_vertex(d, t) ==
  LET T == d.triangles[t]
      t2 == T.neighbours[2]
      a == d.integer_vertices[T.vertices[0]]
      b == d.integer_vertices[T.vertices[1]]
      c == d.integer_vertices[T.vertices[2]]
      e == d.integer_vertices[d.triangles[t2].vertices[0]]
  IN geometry2d_in_sphere_exact(a[1], a[2], b[1], b[2], c[1], c[2], e[1], e[2])

\* the in-circle test of delaunay_check_triangle: triangle t against the
\* vertex of its neighbour 2 that is opposite the shared edge
check_triangle_test(d, t) ==
  LET T == d.triangles[t]
      t2 == T.neighbours[2]
      a == d.integer_vertices[T.vertices[0]]
      b == d.integer_vertices[T.vertices[1]]
      c == d.integer_vertices[T.vertices[2]]
      e == d.integer_vertices[d.triangles[t2].vertices[T.index_in_neighbour[2]]]
  IN geometry2d_in_sphere_exact(a[1], a[2], b[1], b[2], c[1], c[2], e[1], e[2])

\* the edge flip that queues the two outer neighbours of the flipped edge
\* instead of the two new triangles
check_triangle_flip_neighbours_queued(d, t) ==
  LET T == d.triangles[t]
      t2 == T.neighbours[2]
      vt1_0 == T.vertices[0]
      vt1_1 == T.vertices[1]
      vt1_2 == T.vertices[2]
      i0 == T.index_in_neighbour[2]
      vt2_0 == d.triangles[t2].vertices[i0]
      i1 == (i0 + 1) % 3
      i2 == (i0 + 2) % 3
      ngb0 == T.neighbours[1]
      ngbi0 == T.index_in_neighbour[1]
      ngb1 == T.neighbours[0]
      ngbi1 == T.index_in_neighbour[0]
      ngb2 == d.triangles[t2].neighbours[i2]
      ngbi2 == d.triangles[t2].index_in_neighbour[i2]
      ngb3 == d.triangles[t2].neighbours[i1]
      ngbi3 == d.triangles[t2].index_in_neighbour[i1]
      e1 == TriInit(d, t, vt1_0, vt2_0, vt1_2)
      e2 == TriSwap(e1, t, 0, t2, 1)
      e3 == TriSwap(e2, t, 1, ngb0, ngbi0)
      e4 == TriSwap(e3, ngb0, ngbi0, t, 1)
      e5 == TriSwap(e4, t, 2, ngb3, ngbi3)
      e6 == TriSwap(e5, ngb3, ngbi3, t, 2)
      e7 == TriInit(e6, t2, vt2_0, vt1_1, vt1_2)
      e8 == TriSwap(e7, t2, 0, ngb1, ngbi1)
      e9 == TriSwap(e8, ngb1, ngbi1, t2, 0)
      e10 == TriSwap(e9, t2, 1, t, 0)
      e11 == TriSwap(e10, t2, 2, ngb2, ngbi2)
      e12 == TriSwap(e11, ngb2, ngbi2, t2, 2)
      e13 == [e12 EXCEPT !.vertex_triangles[vt1_0] = t,
                         !.vertex_triangle_index[vt1_0] = 0]
      e14 == [e13 EXCEPT !.vertex_triangles[vt1_1] = t2,
                         !.vertex_triangle_index[vt1_1] = 1]
      e15 == [e14 EXCEPT !.vertex_triangles[vt1_2] = t2,
                         !.vertex_triangle_index[vt1_2] = 2]
      e16 == [e15 EXCEPT !.vertex_triangles[vt2_0] = t2,
                         !.vertex_triangle_index[vt2_0] = 0]
  IN [delaunay_enqueue(delaunay_enqueue(e16, ngb3), ngb2)
        EXCEPT !.last_triangle = t2]

\* the edge flip of delaunay_check_triangle (the branch testi > 0)
check_triangle_flip(d, t) ==
  LET T == d.triangles[t]
      t2 == T.neighbours[2]
      vt1_0 == T.vertices[0]
      vt1_1 == T.vertices[1]
      vt1_2 == T.vertices[2]
      i0 == T.index_in_neighbour[2]
      vt2_0 == d.triangles[t2].vertices[i0]
      i1 == (i0 + 1) % 3
      i2 == (i0 + 2) % 3
      ngb0 == T.neighbours[1]
      ngbi0 == T.index_in_neighbour[1]
      ngb1 == T.neighbours[0]
      ngbi1 == T.index_in_neighbour[0]
      ngb2 == d.triangles[t2].neighbours[i2]
      ngbi2 == d.triangles[t2].index_in_neighbour[i2]
      ngb3 == d.triangles[t2].neighbours[i1]
      ngbi3 == d.triangles[t2].index_in_neighbour[i1]
      e1 == TriInit(d, t, vt1_0, vt2_0, vt1_2)
      e2 == TriSwap(e1, t, 0, t2, 1)
      e3 == TriSwap(e2, t, 1, ngb0, ngbi0)
      e4 == TriSwap(e3, ngb0, ngbi0, t, 1)
      e5 == TriSwap(e4, t, 2, ngb3, ngbi3)
      e6 == TriSwap(e5, ngb3, ngbi3, t, 2)
      e7 == TriInit(e6, t2, vt2_0, vt1_1, vt1_2)
      e8 == TriSwap(e7, t2, 0, ngb1, ngbi1)
      e9 == TriSwap(e8, ngb1, ngbi1, t2, 0)
      e10 == TriSwap(e9, t2, 1, t, 0)
      e11 == TriSwap(e10, t2, 2, ngb2, ngbi2)
      e12 == TriSwap(e11, ngb2, ngbi2, t2, 2)
      e13 == [e12 EXCEPT !.vertex_triangles[vt1_0] = t,
                         !.vertex_triangle_index[vt1_0] = 0]
      e14 == [e13 EXCEPT !.vertex_triangles[vt1_1] = t2,
                         !.vertex_triangle_index[vt1_1] = 1]
      e15 == [e14 EXCEPT !.vertex_triangles[vt1_2] = t2,
                         !.vertex_triangle_index[vt1_2] = 2]
      e16 == [e15 EXCEPT !.vertex_triangles[vt2_0] = t2,
                         !.vertex_triangle_index[vt2_0] = 0]
  IN [delaunay_enqueue(delaunay_enqueue(e16, t), t2) EXCEPT !.last_triangle = t2]

\* delaunay_check_triangle with the sign of the in-circle test read the wrong
\* way round
delaunay_check_triangle_wrong_sign(d, t) ==
  IF d.triangles[t].neighbours[2] < 3 THEN d
  ELSE IF check_triangle_test(d, t) < 0 THEN check_triangle_flip(d, t)
  ELSE d

delaunay_check_triangle(d, t) ==
  IF d.triangles[t].neighbours[2] < 3 THEN d
  ELSE IF check_triangle_test(d, t) > 0 THEN check_triangle_flip(d, t)
  ELSE d

\* the branch flag == 1 of delaunay_add_vertex: t0 is split into 3 triangles
add_vertex_one_to_three(d, v, t0) ==
  LET T == d.triangles[t0]
      tv0 == T.vertices[0]
      tv1 == T.vertices[1]
      tv2 == T.vertices[2]
      ngb0 == T.neighbours[0]
      ngb1 == T.neighbours[1]
      ngb2 == T.neighbours[2]
      ngbi0 == T.index_in_neighbour[0]
      ngbi1 == T.index_in_neighbour[1]
      ngbi2 == T.index_in_neighbour[2]
      t1 == d.triangle_index
      n1 == delaunay_new_triangle(d)
      t2 == n1.triangle_index
      n2 == delaunay_new_triangle(n1)
      e1 == TriInit(n2, t0, tv0, tv1, v)
      e2 == TriSwap(e1, t0, 0, t1, 1)
      e3 == TriSwap(e2, t0, 1, t2, 0)
      e4 == TriSwap(e3, t0, 2, ngb2, ngbi2)
      e5 == TriSwap(e4, ngb2, ngbi2, t0, 2)
      e6 == TriInit(e5, t1, tv1, tv2, v)
      e7 == TriSwap(e6, t1, 0, t2, 1)
      e8 == TriSwap(e7, t1, 1, t0, 0)
      e9 == TriSwap(e8, t1, 2, ngb0, ngbi0)
      e10 == TriSwap(e9, ngb0, ngbi0, t1, 2)
      e11 == TriInit(e10, t2, tv2, tv0, v)
      e12 == TriSwap(e11, t2, 0, t0, 1)
      e13 == TriSwap(e12, t2, 1, t1, 0)
      e14 == TriSwap(e13, t2, 2, ngb1, ngbi1)
      e15 == TriSwap(e14, ngb1, ngbi1, t2, 2)
      e16 == [e15 EXCEPT !.vertex_triangles[tv0] = t0,
                         !.vertex_triangle_index[tv0] = 0]
      e17 == [e16 EXCEPT !.vertex_triangles[tv1] = t1,
                         !.vertex_triangle_index[tv1] = 0]
      e18 == [e17 EXCEPT !.vertex_triangles[tv2] = t2,
                         !.vertex_triangle_index[tv2] = 0]
      e19 == [e18 EXCEPT !.vertex_triangles[v] = t2,
                         !.vertex_triangle_index[v] = 2]
      e20 == delaunay_enqueue(delaunay_enqueue(delaunay_enqueue(e19, t0), t1), t2)
  IN [e20 EXCEPT !.last_triangle = t2]

\* the branch flag == 2 of delaunay_add_vertex: t0 and t1, which share the
\* edge opposite vertex ngb_index of t0, are split into 4 triangles
add_vertex_two_to_four(d, v, t0, t1, ngb_index) ==
  LET T0 == d.triangles[t0]
      T1 == d.triangles[t1]
      i0_1 == (ngb_index + 1) % 3
      i0_2 == (ngb_index + 2) % 3
      vt0_0 == T0.vertices[ngb_index]
      vt0_1 == T0.vertices[i0_1]
      vt0_2 == T0.vertices[i0_2]
      i1_0 == T0.index_in_neighbour[ngb_index]
      i1_1 == (i1_0 + 1) % 3
      i1_2 == (i1_0 + 2) % 3
      vt1_0 == T1.vertices[i1_0]
      ngb0_1 == T0.neighbours[i0_1]
      ngbi0_1 == T0.index_in_neighbour[i0_1]
      ngb0_2 == T0.neighbours[i0_2]
      ngbi0_2 == T0.index_in_neighbour[i0_2]
      ngb1_1 == T1.neighbours[i1_1]
      ngbi1_1 == T1.index_in_neighbour[i1_1]
      ngb1_2 == T1.neighbours[i1_2]
      ngbi1_2 == T1.index_in_neighbour[i1_2]
      t2 == d.triangle_index
      n1 == delaunay_new_triangle(d)
      t3 == n1.triangle_index
      n2 == delaunay_new_triangle(n1)
      e1 == TriInit(n2, t0, vt0_0, vt0_1, v)
      e2 == TriSwap(e1, t0, 0, t2, 1)
      e3 == TriSwap(e2, t0, 1, t1, 0)
      e4 == TriSwap(e3, t0, 2, ngb0_2, ngbi0_2)
      e5 == TriSwap(e4, ngb0_2, ngbi0_2, t0, 2)
      e6 == TriInit(e5, t1, vt0_2, vt0_0, v)
      e7 == TriSwap(e6, t1, 0, t0, 1)
      e8 == TriSwap(e7, t1, 1, t3, 0)
      e9 == TriSwap(e8, t1, 2, ngb0_1, ngbi0_1)
      e10 == TriSwap(e9, ngb0_1, ngbi0_1, t1, 2)
      e11 == TriInit(e10, t2, vt0_1, vt1_0, v)
      e12 == TriSwap(e11, t2, 0, t3, 1)
      e13 == TriSwap(e12, t2, 1, t0, 0)
      e14 == TriSwap(e13, t2, 2, ngb1_1, ngbi1_1)
      e15 == TriSwap(e14, ngb1_1, ngbi1_1, t2, 2)
      e16 == TriInit(e15, t3, vt1_0, vt0_2, v)
      e17 == TriSwap(e16, t3, 0, t1, 1)
      e18 == TriSwap(e17, t3, 1, t2, 0)
      e19 == TriSwap(e18, t3, 2, ngb1_2, ngbi1_2)
      e20 == TriSwap(e19, ngb1_2, ngbi1_2, t3, 2)
      e21 == [e20 EXCEPT !.vertex_triangles[vt0_0] = t0,
                         !.vertex_triangle_index[vt0_0] = 0]
      e22 == [e21 EXCEPT !.vertex_triangles[vt0_1] = t0,
                         !.vertex_triangle_index[vt0_1] = 1]
      e23 == [e22 EXCEPT !.vertex_triangles[vt0_2] = t1,
                         !.vertex_triangle_index[vt0_2] = 0]
      e24 == [e23 EXCEPT !.vertex_triangles[vt1_0] = t2,
                         !.vertex_triangle_index[vt1_0] = 1]
      e25 == [e24 EXCEPT !.vertex_triangles[v] = t0,
                         !.vertex_triangle_index[v] = 2]
      e26 == delaunay_enqueue(
               delaunay_enqueue(delaunay_enqueue(delaunay_enqueue(e25, t0), t1), t2),
               t3)
  IN [e26 EXCEPT !.last_triangle = t3]

delaunay_consolidate_2d(d) == [d EXCEPT !.ghost_offset = d.vertex_index]

\* the position of vertex v in box coordinates (d->vertices)
vertices_2d(d, v) ==
  <<d.integer_vertices[v][1] + d.anchor, d.integer_vertices[v][2] + d.anchor>>

\* radius of the circumcircle of triangle t
delaunay_get_radius(d, t) ==
  LET v0 == vertices_2d(d, d.triangles[t].vertices[0])
      v1 == vertices_2d(d, d.triangles[t].vertices[1])
      v2 == vertices_2d(d, d.triangles[t].vertices[2])
      ax == v1[1] - v0[1]
      ay == v1[2] - v0[2]
      bx == v2[1] - v0[1]
      by == v2[2] - v0[2]
      D == 2 * (ax * by - ay * bx)
      a2 == ax * ax + ay * ay
      b2 == bx * bx + by * by
      Rx == by * a2 - ay * b2
      Ry == ax * b2 - bx * a2
  IN radius_reduced(Rx * Rx + Ry * Ry, D * D)

\* the loop of delaunay_update_search_radii around one vertex, entered with
\* the triangle t1 next to visit: the radius found, the triangles visited
\* and whether the loop came back to t0 within fuel turns
RECURSIVE update_search_radii_walk(_, _, _, _, _, _, _)
update_search_radii_walk(d, t0, t1, vi1, radius, visited, fuel) ==
  IF t1 = t0 THEN [radius |-> radius, visited |-> visited, back |-> TRUE]
  ELSE IF fuel = 0 \/ t1 \notin DOMAIN d.triangles
    THEN [radius |-> radius, visited |-> visited, back |-> FALSE]
  ELSE LET vi1p2 == (vi1 + 2) % 3
       IN update_search_radii_walk(
            d, t0, d.triangles[t1].neighbours[vi1p2],
            d.triangles[t1].index_in_neighbour[vi1p2],
            fmax(radius, radius_times(2, delaunay_get_radius(d, t1))),
            Append(visited, t1), fuel - 1)

\* the loop body that starts from the radius of the back-linked triangle
\* instead of twice that radius
update_search_radius_first_not_doubled(d, i) ==
  LET t0 == d.vertex_triangles[i]
      vi0 == d.vertex_triangle_index[i]
      vi0p1 == (vi0 + 1) % 3
  IN update_search_radii_walk(
       d, t0, d.triangles[t0].neighbours[vi0p1],
       d.triangles[t0].index_in_neighbour[vi0p1],
       delaunay_get_radius(d, t0), <<t0>>, d.triangle_index)

\* the body of the loop of delaunay_update_search_radii for vertex i
update_search_radius(d, i) ==
  LET t0 == d.vertex_triangles[i]
      vi0 == d.vertex_triangle_index[i]
      vi0p1 == (vi0 + 1) % 3
  IN update_search_radii_walk(
       d, t0, d.triangles[t0].neighbours[vi0p1],
       d.triangles[t0].index_in_neighbour[vi0p1],
       radius_times(2, delaunay_get_radius(d, t0)), <<t0>>, d.triangle_index)

\* delaunay_update_search_radii(d, r): the tessellation after the call, the
\* value returned, and whether every loop around a vertex came to its end
delaunay_update_search_radii(d, r) ==
  LET updated == {i \in d.vertex_start..(d.vertex_end - 1) :
                    radius_gt(d.search_radii[i], radius_of(r))}
      search_radii == [i \in DOMAIN d.search_radii |->
                         IF i \in updated THEN update_search_radius(d, i).radius
                                          ELSE d.search_radii[i]]
  IN [d |-> [d EXCEPT !.search_radii = search_radii],
      count |-> Cardinality({i \in updated :
                               radius_gt(search_radii[i], radius_of(r))}),
      back |-> \A i \in updated : update_search_radius(d, i).back]

(* delaunay_add_vertex, 2D, step by step.  A machine state m is the        *)
(* tessellation m.d together with the locals m.f of the call.              *)

\* entry of delaunay_add_vertex(d, v)
add_vertex_begin_2d(d, v) ==
  [d |-> d,
   f |-> [IdleFrame EXCEPT !.pc = "locate", !.v = v, !.t0 = d.last_triangle,
                           !.first = TRUE]]

\* one call of delaunay_test_point_inside_triangle of the walk, with the
\* count bookkeeping of the loop around it
add_vertex_locate_2d(m, choice) ==
  LET r == delaunay_test_point_inside_triangle(m.d, m.f.v, m.f.t0,
                                               m.f.ngb_index, choice)
      count == IF m.f.first THEN 0 ELSE m.f.count + 1
  IN IF r.flag < 0 \/ ~(m.f.first \/ count < m.d.triangle_index)
       THEN [m EXCEPT !.f = AbortFrame]
     ELSE IF r.flag = 0
       THEN [m EXCEPT !.f.t0 = r.t_new, !.f.first = FALSE, !.f.count = count]
     ELSE [m EXCEPT !.f.pc = "split", !.f.t1 = r.t_new, !.f.first = FALSE,
                    !.f.ngb_index = r.ngb_index, !.f.flag = r.flag,
                    !.f.count = count]

\* add_vertex_split_2d without the branch for a vertex on an edge: the
\* triangle t0 is split into three whatever the flag
add_vertex_split_2d_no_edge_case(m) ==
  [d |-> add_vertex_one_to_three(m.d, m.f.v, m.f.t0),
   f |-> [IdleFrame EXCEPT !.pc = "check", !.v = m.f.v]]

\* add_vertex_split_2d that claims a triangle before it looks at the flag and
\* leaves it unused
add_vertex_split_2d_spare_triangle(m) ==
  IF m.f.flag = 2 /\ ~(m.f.t1 > 2)
    THEN [m EXCEPT !.f = AbortFrame]
  ELSE
  [d |-> IF m.f.flag = 1
           THEN add_vertex_one_to_three(delaunay_new_triangle(m.d), m.f.v, m.f.t0)
           ELSE add_vertex_two_to_four(delaunay_new_triangle(m.d), m.f.v, m.f.t0,
                                       m.f.t1, m.f.ngb_index),
   f |-> [IdleFrame EXCEPT !.pc = "check", !.v = m.f.v]]

\* the split of the located triangle(s)
add_vertex_split_2d(m) ==
  IF m.f.flag = 2 /\ ~(m.f.t1 > 2)
    \* t1 is a dummy: its vertex -1 and its neighbours -1 are used as indices
    THEN [m EXCEPT !.f = AbortFrame]
  ELSE
  [d |-> IF m.f.flag = 1
           THEN add_vertex_one_to_three(m.d, m.f.v, m.f.t0)
           ELSE add_vertex_two_to_four(m.d, m.f.v, m.f.t0, m.f.t1, m.f.ngb_index),
   f |-> [IdleFrame EXCEPT !.pc = "check", !.v = m.f.v]]

\* one round of the loop of delaunay_check_triangles: pop, then check or return
delaunay_check_triangles_step(m) ==
  IF Len(m.d.queue) > 0
    THEN [m EXCEPT !.d = delaunay_check_triangle(
                           [m.d EXCEPT !.queue = Front(@)], Last(m.d.queue))]
    ELSE [m EXCEPT !.f = IdleFrame]

\* delaunay_add_vertex(d, v) as one call, from the machine state m to the
\* return or the abort (rand() answers 0 throughout)
RECURSIVE delaunay_add_vertex_2d(_)
delaunay_add_vertex_2d(m) ==
  IF m.f.pc = "locate" THEN delaunay_add_vertex_2d(add_vertex_locate_2d(m, 0))
  ELSE IF m.f.pc = "split" THEN delaunay_add_vertex_2d(add_vertex_split_2d(m))
  ELSE IF m.f.pc = "check"
    THEN delaunay_add_vertex_2d(delaunay_check_triangles_step(m))
  ELSE m

\* delaunay_add_new_vertex(d, x, y) as one call
delaunay_add_new_vertex_2d(d, x, y) ==
  delaunay_add_vertex_2d(
    add_vertex_begin_2d(delaunay_new_vertex_2d(d, x, y), d.vertex_index))

-----------------------------------------------------------------------------
(* struct tetrahedron (tetrahedron.h) *)

tetrahedron_init(v0, v1, v2, v3) ==
  [vertices |-> Arr4(v0, v1, v2, v3),
   neighbours |-> Arr4(-1, -1, -1, -1),
   index_in_neighbour |-> Arr4(-1, -1, -1, -1),
   active |-> 1]

tetrahedron_swap_neighbour(T, index, neighbour, index_in_neighbour) ==
  [T EXCEPT !.neighbours[index] = neighbour,
            !.index_in_neighbour[index] = index_in_neighbour]

tetrahedron_swap_neighbours(T, n0, n1, n2, n3, i0, i1, i2, i3) ==
  [T EXCEPT !.neighbours = Arr4(n0, n1, n2, n3),
            !.index_in_neighbour = Arr4(i0, i1, i2, i3)]

tetrahedron_deactivate(T) == [T EXCEPT !.active = 0]

\* index of neighbour n in the neighbour list of T, 4 if it is not there
tetrahedron_is_neighbour(T, n) ==
  IF T.neighbours[0] = n THEN 0
  ELSE IF T.neighbours[1] = n THEN 1
  ELSE IF T.neighbours[2] = n THEN 2
  ELSE IF T.neighbours[3] = n THEN 3
  ELSE 4

\* tetrahedron_swap_neighbour(&d->tetrahedra[t], ...)
TetSwap(d, t, index, neighbour, index_in_neighbour) ==
  [d EXCEPT !.tetrahedra[t] =
     tetrahedron_swap_neighbour(@, index, neighbour, index_in_neighbour)]

\* tetrahedron_swap_neighbours(&d->tetrahedra[t], ...)
TetSwaps(d, t, n0, n1, n2, n3, i0, i1, i2, i3) ==
  [d EXCEPT !.tetrahedra[t] =
     tetrahedron_swap_neighbours(@, n0, n1, n2, n3, i0, i1, i2, i3)]

\* int_lifo_queue_push(&d->tetrahedra_to_check, t)
PushCheck(d, t) == [d EXCEPT !.tetrahedra_to_check = Append(@, t)]

-----------------------------------------------------------------------------
(* delaunay3d.h *)

rescaled_in_range_3d(d, x) ==
  x - d.anchor >= 0 /\ x - d.anchor <= d.box_side

\* the six assertions of delaunay_init_vertex
vertex_accepted_3d(d, x, y, z) ==
  rescaled_in_range_3d(d, x) /\ rescaled_in_range_3d(d, y)
    /\ rescaled_in_range_3d(d, z)

delaunay_init_vertex_3d(d, v, x, y, z) ==
  [d EXCEPT !.integer_vertices[v] = <<x - d.anchor, y - d.anchor, z - d.anchor>>,
            !.vertex_tetrahedron_links[v] = -1,
            !.vertex_tetrahedron_index[v] = -1,
            !.get_radius_neighbour_flags[v] = 0]

\* delaunay_new_vertex that returns the index without advancing vertex_index
delaunay_new_vertex_3d_index_not_advanced(d, x, y, z) ==
  LET v == d.vertex_index
      grown ==
        [d EXCEPT !.vertex_size = IF v = @ THEN 2 * @ ELSE @,
                  !.integer_vertices = Append0(@, v, <<>>),
                  !.vertex_tetrahedron_links = Append0(@, v, Uninit),
                  !.vertex_tetrahedron_index = Append0(@, v, Uninit),
                  !.get_radius_neighbour_flags = Append0(@, v, Uninit)]
  IN delaunay_init_vertex_3d(grown, v, x, y, z)

delaunay_new_vertex_3d(d, x, y, z) ==
  LET v == d.vertex_index
      grown ==
        [d EXCEPT !.vertex_size = IF v = @ THEN 2 * @ ELSE @,
                  !.integer_vertices = Append0(@, v, <<>>),
                  !.vertex_tetrahedron_links = Append0(@, v, Uninit),
                  !.vertex_tetrahedron_index = Append0(@, v, Uninit),
                  !.get_radius_neighbour_flags = Append0(@, v, Uninit)]
  IN [delaunay_init_vertex_3d(grown, v, x, y, z)
        EXCEPT !.vertex_index = v + 1,
               !.overrun = returned(@, "vertices", v, grown.vertex_size)]

\* the queue of triples (queues.h): values holds every triple pushed since
\* the last reset, start the number of triples popped and end the number of
\* triples pushed
int3_fifo_queue_init == [values |-> <<>>, start |-> 0, end |-> 0]

\* the index delaunay_new_tetrahedron returns
new_tetrahedron_index(d) ==
  IF d.free_tetrahedron_indices # <<>>
    THEN Last(d.free_tetrahedron_indices)
    ELSE d.tetrahedron_index

\* delaunay_new_tetrahedron that pops the free list and then goes on to take
\* the next unused slot as well
delaunay_new_tetrahedron_no_early_return(d) ==
  LET t == d.tetrahedron_index
  IN [d EXCEPT !.free_tetrahedron_indices = IF @ # <<>> THEN Front(@) ELSE @,
               !.tetrahedron_size = IF t = @ THEN 2 * @ ELSE @,
               !.tetrahedra =
                 Append0(@, t, [tetrahedron_init(Uninit, Uninit, Uninit, Uninit)
                                  EXCEPT !.active = Uninit]),
               !.tetrahedron_index = t + 1]

\* the tessellation after delaunay_new_tetrahedron
delaunay_new_tetrahedron(d) ==
  IF d.free_tetrahedron_indices # <<>>
    THEN [d EXCEPT !.free_tetrahedron_indices = Front(@),
                   !.overrun = returned(@, "tetrahedra",
                                        Last(d.free_tetrahedron_indices),
                                        d.tetrahedron_size)]
    ELSE LET t == d.tetrahedron_index
             size == IF t = d.tetrahedron_size THEN 2 * d.tetrahedron_size
                                               ELSE d.tetrahedron_size
         IN [d EXCEPT !.tetrahedron_size = size,
                      !.tetrahedra =
                        Append0(@, t, [tetrahedron_init(Uninit, Uninit, Uninit, Uninit)
                                         EXCEPT !.active = Uninit]),
                      !.tetrahedron_index = t + 1,
                      !.overrun = returned(@, "tetrahedra", t, size)]

\* delaunay_init_tetrahedron that leaves the link of the last vertex as it is
delaunay_init_tetrahedron_stale_link(d, t, v0, v1, v2, v3) ==
  LET e0 == [d EXCEPT !.tetrahedra[t] = tetrahedron_init(v0, v1, v2, v3)]
      e1 == [e0 EXCEPT !.vertex_tetrahedron_links[v0] = t,
                       !.vertex_tetrahedron_index[v0] = 0]
      e2 == [e1 EXCEPT !.vertex_tetrahedron_links[v1] = t,
                       !.vertex_tetrahedron_index[v1] = 1]
      e3 == [e2 EXCEPT !.vertex_tetrahedron_links[v2] = t,
                       !.vertex_tetrahedron_index[v2] = 2]
  IN [e3 EXCEPT !.last_tetrahedron = t]

delaunay_init_tetrahedron(d, t, v0, v1, v2, v3) ==
  LET e0 == [d EXCEPT !.tetrahedra[t] = tetrahedron_init(v0, v1, v2, v3)]
      e1 == [e0 EXCEPT !.vertex_tetrahedron_links[v0] = t,
                       !.vertex_tetrahedron_index[v0] = 0]
      e2 == [e1 EXCEPT !.vertex_tetrahedron_links[v1] = t,
                       !.vertex_tetrahedron_index[v1] = 1]
      e3 == [e2 EXCEPT !.vertex_tetrahedron_links[v2] = t,
                       !.vertex_tetrahedron_index[v2] = 2]
      e4 == [e3 EXCEPT !.vertex_tetrahedron_links[v3] = t,
                       !.vertex_tetrahedron_index[v3] = 3]
  IN [e4 EXCEPT !.last_tetrahedron = t]

delaunay_init_3d(vertex_size, tetrahedron_size) ==
  LET box_anchor == hs_anchor - HsSide
      box_side == 9 * HsSide
      e0 == [anchor |-> box_anchor,
             box_side |-> box_side,
             integer_vertices |-> [i \in 0..(vertex_size - 1) |-> <<>>],
             vertex_tetrahedron_links |-> [i \in 0..(vertex_size - 1) |-> Uninit],
             vertex_tetrahedron_index |-> [i \in 0..(vertex_size - 1) |-> Uninit],
             vertex_index |-> vertex_size,
             vertex_size |-> vertex_size,
             vertex_start |-> 0,
             vertex_end |-> vertex_size,
             ghost_offset |-> 0,
             tetrahedra |-> [i \in {} |-> 0],
             tetrahedron_index |-> 0,
             tetrahedron_size |-> tetrahedron_size,
             last_tetrahedron |-> Uninit,
             tetrahedra_to_check |-> <<>>,
             free_tetrahedron_indices |-> <<>>,
             tetrahedra_containing_vertex |-> <<>>,
             get_radius_neighbour_info_queue |-> int3_fifo_queue_init,
             get_radius_neighbour_flags |-> [i \in 0..(vertex_size - 1) |-> Uninit],
             overrun |-> {}]
      v0 == e0.vertex_index
      e1 == delaunay_new_vertex_3d(e0, box_anchor, box_anchor, box_anchor)
      v1 == e1.vertex_index
      e2 == delaunay_new_vertex_3d(e1, box_anchor + box_side, box_anchor, box_anchor)
      v2 == e2.vertex_index
      e3 == delaunay_new_vertex_3d(e2, box_anchor, box_anchor + box_side, box_anchor)
      v3 == e3.vertex_index
      e4 == delaunay_new_vertex_3d(e3, box_anchor, box_anchor, box_anchor + box_side)
      dummy0 == new_tetrahedron_index(e4)
      e5 == delaunay_new_tetrahedron(e4)
      dummy1 == new_tetrahedron_index(e5)
      e6 == delaunay_new_tetrahedron(e5)
      dummy2 == new_tetrahedron_index(e6)
      e7 == delaunay_new_tetrahedron(e6)
      dummy3 == new_tetrahedron_index(e7)
      e8 == delaunay_new_tetrahedron(e7)
      first_tetrahedron == new_tetrahedron_index(e8)
      e9 == delaunay_new_tetrahedron(e8)
      e10 == [e9 EXCEPT !.tetrahedra[dummy0] = tetrahedron_init(v1, v2, v3, -1),
                        !.tetrahedra[dummy1] = tetrahedron_init(v2, v0, v3, -1),
                        !.tetrahedra[dummy2] = tetrahedron_init(v3, v0, v1, -1),
                        !.tetrahedra[dummy3] = tetrahedron_init(v0, v2, v1, -1)]
      e11 == delaunay_init_tetrahedron(e10, first_tetrahedron, v0, v1, v2, v3)
      e12 == TetSwap(e11, dummy0, 3, first_tetrahedron, 0)
      e13 == TetSwap(e12, dummy1, 3, first_tetrahedron, 1)
      e14 == TetSwap(e13, dummy2, 3, first_tetrahedron, 2)
      e15 == TetSwap(e14, dummy3, 3, first_tetrahedron, 3)
  IN TetSwaps(e15, first_tetrahedron, dummy0, dummy1, dummy2, dummy3, 3, 3, 3, 3)

\* positive_permutation whose last case looks at the third index
positive_permutation_last_case_third_index(a, b, c, e) ==
  IF (a + 1) % 4 = b THEN c % 2 = 0
  ELSE IF (a + 2) % 4 = b THEN b * c + a * e > b * e + a * c
  ELSE c % 2 = 0

\* positive_permutation with the parity of the first case inverted
positive_permutation_wrong_parity(a, b, c, e) ==
  IF (a + 1) % 4 = b THEN c % 2 = 1
  ELSE IF (a + 2) % 4 = b THEN b * c + a * e > b * e + a * c
  ELSE e % 2 = 0

positive_permutation(a, b, c, e) ==
  IF (a + 1) % 4 = b THEN c % 2 = 0
  ELSE IF (a + 2) % 4 = b THEN b * c + a * e > b * e + a * c
  ELSE e % 2 = 0

\* geometry3d_orient_exact on four vertices given by their indices
orient_vertices(d, a, b, c, e) ==
  LET pa == d.integer_vertices[a]
      pb == d.integer_vertices[b]
      pc == d.integer_vertices[c]
      pe == d.integer_vertices[e]
  IN geometry_orient_exact(pa[1], pa[2], pa[3], pb[1], pb[2], pb[3],
                           pc[1], pc[2], pc[3], pe[1], pe[2], pe[3])

\* in_sphere_vertices that hands the first two vertices over in the other
\* order
in_sphere_vertices_first_two_swapped(d, a, b, c, e, f) ==
  LET pa == d.integer_vertices[a]
      pb == d.integer_vertices[b]
      pc == d.integer_vertices[c]
      pe == d.integer_vertices[e]
      pf == d.integer_vertices[f]
  IN geometry_in_sphere_exact(pb[1], pb[2], pb[3], pa[1], pa[2], pa[3],
                              pc[1], pc[2], pc[3], pe[1], pe[2], pe[3],
                              pf[1], pf[2], pf[3])

\* geometry3d_in_sphere_exact on five vertices given by their indices
in_sphere_vertices(d, a, b, c, e, f) ==
  LET pa == d.integer_vertices[a]
      pb == d.integer_vertices[b]
      pc == d.integer_vertices[c]
      pe == d.integer_vertices[e]
      pf == d.integer_vertices[f]
  IN geometry_in_sphere_exact(pa[1], pa[2], pa[3], pb[1], pb[2], pb[3],
                              pc[1], pc[2], pc[3], pe[1], pe[2], pe[3],
                              pf[1], pf[2], pf[3])

\* the loop of delaunay_find_tetrahedra_containing_vertex that walks around
\* the axis (a0, a1) and pushes every tetrahedron met before last_t; fuel
\* bounds the number of rounds by the number of tetrahedra
RECURSIVE find_rotate(_, _, _, _, _, _, _, _)
find_rotate(d, values, next_t, next_vertex, last_t, a0, a1, fuel) ==
  IF next_t = last_t THEN Append(values, last_t)
  ELSE IF fuel = 0 \/ next_t < 0 THEN <<>>
  ELSE
    LET T == d.tetrahedra[next_t]
        isax(i) == T.vertices[i] = a0 \/ T.vertices[i] = a1
        n1 == (next_vertex + 1) % 4
        n2 == IF isax(n1) THEN (n1 + 1) % 4 ELSE n1
        cur_vertex == IF isax(n2) THEN (n2 + 1) % 4 ELSE n2
    IN find_rotate(d, Append(values, next_t), T.neighbours[cur_vertex],
                   T.index_in_neighbour[cur_vertex], last_t, a0, a1, fuel - 1)

\* what one round of the outer loop of
\* delaunay_find_tetrahedra_containing_vertex decides.  kind "move": the
\* walk steps to idx; kind "found": values is the content of
\* tetrahedra_containing_vertex; kind "abort": abort(); kind "dummy": the
\* tetrahedron has vertex -1, whose coordinates are read from outside the
\* vertex array.
find_result(kind, idx, values) == [kind |-> kind, idx |-> idx, values |-> values]

\* the indices of the faces whose orientation test is zero, in the order in
\* which the function tests them
find_tetrahedra_zeros(test_abce, test_acde, test_adbe, test_bdce) ==
  (IF test_abce = 0 THEN <<3>> ELSE <<>>)
    \o (IF test_adbe = 0 THEN <<2>> ELSE <<>>)
    \o (IF test_acde = 0 THEN <<1>> ELSE <<>>)
    \o (IF test_bdce = 0 THEN <<0>> ELSE <<>>)

\* the vertex lies on the edge shared by the faces non_axis_idx0 and
\* non_axis_idx1 of T: all tetrahedra around that edge
find_tetrahedra_on_axis(d, T, tetrahedron_idx, pushed, non_axis_idx0, non_axis_idx1) ==
  LET ax == (non_axis_idx0 + 1) % 4
      axis_idx0 == IF ax = non_axis_idx1 THEN (ax + 1) % 4 ELSE ax
      axis_idx1 == 6 - axis_idx0 - non_axis_idx0 - non_axis_idx1
  IN find_rotate(d, <<tetrahedron_idx>>, pushed[3],
                 T.index_in_neighbour[non_axis_idx1], pushed[2],
                 T.vertices[axis_idx0], T.vertices[axis_idx1],
                 d.tetrahedron_index)

\* find_tetrahedra_inside that aborts on four zero tests only
find_tetrahedra_inside_four_zeros(d, T, tetrahedron_idx, zeros, pushed) ==
  LET n_zero_tests == Len(zeros)
      rotated == find_tetrahedra_on_axis(d, T, tetrahedron_idx, pushed,
                                         zeros[1], zeros[2])
  IN IF n_zero_tests > 3 THEN find_result("abort", tetrahedron_idx, <<>>)
     ELSE IF n_zero_tests > 1
       THEN IF rotated = <<>> THEN find_result("abort", tetrahedron_idx, <<>>)
            ELSE find_result("found", tetrahedron_idx, rotated)
     ELSE find_result("found", tetrahedron_idx, pushed)

\* no test is positive: the vertex is inside T or on its boundary
find_tetrahedra_inside(d, T, tetrahedron_idx, zeros, pushed) ==
  LET n_zero_tests == Len(zeros)
      rotated == find_tetrahedra_on_axis(d, T, tetrahedron_idx, pushed,
                                         zeros[1], zeros[2])
  IN IF n_zero_tests > 2 THEN find_result("abort", tetrahedron_idx, <<>>)
     ELSE IF n_zero_tests > 1
       THEN IF rotated = <<>> THEN find_result("abort", tetrahedron_idx, <<>>)
            ELSE find_result("found", tetrahedron_idx, rotated)
     ELSE find_result("found", tetrahedron_idx, pushed)

\* find_tetrahedra_tested that leaves through the face opposite vertex 2
\* when the vertex is outside the face opposite vertex 1, and conversely
find_tetrahedra_tested_faces_swapped(d, T, tetrahedron_idx, test_abce, test_acde, test_adbe, test_bdce) ==
  LET zeros == find_tetrahedra_zeros(test_abce, test_acde, test_adbe, test_bdce)
      pushed == <<tetrahedron_idx>>
                  \o [k \in 1..Len(zeros) |-> T.neighbours[zeros[k]]]
  IN IF test_abce > 0 THEN find_result("move", T.neighbours[3], <<>>)
     ELSE IF test_acde > 0 THEN find_result("move", T.neighbours[2], <<>>)
     ELSE IF test_adbe > 0 THEN find_result("move", T.neighbours[1], <<>>)
     ELSE IF test_bdce > 0 THEN find_result("move", T.neighbours[0], <<>>)
     ELSE find_tetrahedra_inside(d, T, tetrahedron_idx, zeros, pushed)

find_tetrahedra_tested(d, T, tetrahedron_idx, test_abce, test_acde, test_adbe, test_bdce) ==
  LET zeros == find_tetrahedra_zeros(test_abce, test_acde, test_adbe, test_bdce)
      pushed == <<tetrahedron_idx>>
                  \o [k \in 1..Len(zeros) |-> T.neighbours[zeros[k]]]
  IN IF test_abce > 0 THEN find_result("move", T.neighbours[3], <<>>)
     ELSE IF test_acde > 0 THEN find_result("move", T.neighbours[1], <<>>)
     ELSE IF test_adbe > 0 THEN find_result("move", T.neighbours[2], <<>>)
     ELSE IF test_bdce > 0 THEN find_result("move", T.neighbours[0], <<>>)
     ELSE find_tetrahedra_inside(d, T, tetrahedron_idx, zeros, pushed)

\* one round of the outer loop of delaunay_find_tetrahedra_containing_vertex
\* on tetrahedron tetrahedron_idx
find_tetrahedra_step(d, v, tetrahedron_idx) ==
  LET T == d.tetrahedra[tetrahedron_idx]
      v0 == T.vertices[0]
      v1 == T.vertices[1]
      v2 == T.vertices[2]
      v3 == T.vertices[3]
  IN IF v0 < 0 \/ v1 < 0 \/ v2 < 0 \/ v3 < 0
       THEN find_result("dummy", tetrahedron_idx, <<>>)
     ELSE find_tetrahedra_tested(d, T, tetrahedron_idx,
                                 orient_vertices(d, v0, v1, v2, v),
                                 orient_vertices(d, v0, v2, v3, v),
                                 orient_vertices(d, v0, v3, v1, v),
                                 orient_vertices(d, v1, v3, v2, v))

\* delaunay_new_tetrahedron followed by delaunay_init_tetrahedron on the
\* index it returned
delaunay_init_new_tetrahedron(d, v0, v1, v2, v3) ==
  delaunay_init_tetrahedron(delaunay_new_tetrahedron(d),
                            new_tetrahedron_index(d), v0, v1, v2, v3)

\* one_to_four_create that replaces the vertex 2 of t a second time where the
\* vertex 1 is to be replaced
one_to_four_create_same_vertex_twice(d, v, t, vertices) ==
  LET e1 == delaunay_init_tetrahedron(d, t, vertices[0], vertices[1],
                                      vertices[2], v)
      e2 == delaunay_init_new_tetrahedron(e1, vertices[0], vertices[1], v,
                                          vertices[3])
      e3 == delaunay_init_new_tetrahedron(e2, vertices[0], vertices[1], v,
                                          vertices[3])
      e4 == delaunay_init_new_tetrahedron(e3, v, vertices[1], vertices[2],
                                          vertices[3])
  IN [d |-> e4, t1 |-> new_tetrahedron_index(e1),
      t2 |-> new_tetrahedron_index(e2), t3 |-> new_tetrahedron_index(e3)]

\* delaunay_one_to_four_flip: the four tetrahedra are written, three of them
\* in new slots t1, t2, t3
one_to_four_create(d, v, t, vertices) ==
  LET e1 == delaunay_init_tetrahedron(d, t, vertices[0], vertices[1],
                                      vertices[2], v)
      e2 == delaunay_init_new_tetrahedron(e1, vertices[0], vertices[1], v,
                                          vertices[3])
      e3 == delaunay_init_new_tetrahedron(e2, vertices[0], v, vertices[2],
                                          vertices[3])
      e4 == delaunay_init_new_tetrahedron(e3, v, vertices[1], vertices[2],
                                          vertices[3])
  IN [d |-> e4, t1 |-> new_tetrahedron_index(e1),
      t2 |-> new_tetrahedron_index(e2), t3 |-> new_tetrahedron_index(e3)]

\* one_to_four_wire without the update of the neighbour opposite the first
\* vertex, which keeps naming t where t3 has taken its place
one_to_four_wire_stale_neighbour(d, t, t1, t2, t3, ngbs, idx_in_ngbs) ==
  LET e5 == TetSwaps(d, t, t3, t2, t1, ngbs[3], 3, 3, 3, idx_in_ngbs[3])
      e6 == TetSwaps(e5, t1, t3, t2, ngbs[2], t, 2, 2, idx_in_ngbs[2], 2)
      e7 == TetSwaps(e6, t2, t3, ngbs[1], t1, t, 1, idx_in_ngbs[1], 1, 1)
      e8 == TetSwaps(e7, t3, ngbs[0], t2, t1, t, idx_in_ngbs[0], 0, 0, 0)
      e10 == TetSwap(e8, ngbs[1], idx_in_ngbs[1], t2, 1)
      e11 == TetSwap(e10, ngbs[2], idx_in_ngbs[2], t1, 2)
      e12 == TetSwap(e11, ngbs[3], idx_in_ngbs[3], t, 3)
  IN PushCheck(PushCheck(PushCheck(PushCheck(e12, t), t1), t2), t3)

\* delaunay_one_to_four_flip: the neighbour relations and the queue
one_to_four_wire(d, t, t1, t2, t3, ngbs, idx_in_ngbs) ==
  LET e5 == TetSwaps(d, t, t3, t2, t1, ngbs[3], 3, 3, 3, idx_in_ngbs[3])
      e6 == TetSwaps(e5, t1, t3, t2, ngbs[2], t, 2, 2, idx_in_ngbs[2], 2)
      e7 == TetSwaps(e6, t2, t3, ngbs[1], t1, t, 1, idx_in_ngbs[1], 1, 1)
      e8 == TetSwaps(e7, t3, ngbs[0], t2, t1, t, idx_in_ngbs[0], 0, 0, 0)
      e9 == TetSwap(e8, ngbs[0], idx_in_ngbs[0], t3, 0)
      e10 == TetSwap(e9, ngbs[1], idx_in_ngbs[1], t2, 1)
      e11 == TetSwap(e10, ngbs[2], idx_in_ngbs[2], t1, 2)
      e12 == TetSwap(e11, ngbs[3], idx_in_ngbs[3], t, 3)
  IN PushCheck(PushCheck(PushCheck(PushCheck(e12, t), t1), t2), t3)

one_to_four_apply(c, t, ngbs, idx_in_ngbs) ==
  one_to_four_wire(c.d, t, c.t1, c.t2, c.t3, ngbs, idx_in_ngbs)

delaunay_one_to_four_flip(d, v, t) ==
  one_to_four_apply(one_to_four_create(d, v, t, d.tetrahedra[t].vertices), t,
                    d.tetrahedra[t].neighbours,
                    d.tetrahedra[t].index_in_neighbour)

\* index of vertex x in the vertex list of T, 4 if it is not there
IndexOfVertex(T, x) ==
  IF T.vertices[0] = x THEN 0
  ELSE IF T.vertices[1] = x THEN 1
  ELSE IF T.vertices[2] = x THEN 2
  ELSE IF T.vertices[3] = x THEN 3
  ELSE 4

\* vert, ngbs and idx_in_ngbs of the flips that start from two tetrahedra T0
\* and T1 with a common face, once the indices of the vertices of the face are
\* known: (v0_0, v1_0, v3_0) in T0 and (v0_1, v1_1, v3_1) in T1, v2_0 the top
\* of T0 and v4_1 the top of T1
two_tetrahedra_gather(T0, T1, v0_0, v1_0, v2_0, v3_0, v0_1, v1_1, v3_1, v4_1) ==
  [vert |-> <<T0.vertices[v0_0], T0.vertices[v1_0], T0.vertices[v2_0],
              T0.vertices[v3_0], T1.vertices[v4_1]>>,
   ngbs |-> <<T0.neighbours[v0_0], T1.neighbours[v0_1], T1.neighbours[v1_1],
              T0.neighbours[v1_0], T0.neighbours[v3_0], T1.neighbours[v3_1]>>,
   idx_in_ngb |->
     <<T0.index_in_neighbour[v0_0], T1.index_in_neighbour[v0_1],
       T1.index_in_neighbour[v1_1], T0.index_in_neighbour[v1_0],
       T0.index_in_neighbour[v3_0], T1.index_in_neighbour[v3_1]>>]

\* delaunay_two_to_six_flip: the vertices of T0 in the order of the flip, s0 <
\* s1 < s2 being the indices in T0 of the vertices shared with T1
two_to_six_ordered(T0, T1, s0, s1, s2) ==
  LET top_idx_in_t0 == 6 - s0 - s1 - s2
      swap == ~positive_permutation(s0, s1, top_idx_in_t0, s2)
      v0_0 == IF swap THEN s1 ELSE s0
      v1_0 == IF swap THEN s0 ELSE s1
  IN two_tetrahedra_gather(T0, T1, v0_0, v1_0, top_idx_in_t0, s2,
                           IndexOfVertex(T1, T0.vertices[v0_0]),
                           IndexOfVertex(T1, T0.vertices[v1_0]),
                           IndexOfVertex(T1, T0.vertices[s2]),
                           T0.index_in_neighbour[top_idx_in_t0])

two_to_six_indices(T0, T1) ==
  LET shared == {i \in 0..3 : IndexOfVertex(T1, T0.vertices[i]) < 4}
      s0 == Min(shared)
      s2 == CHOOSE i \in shared : \A j \in shared : j <= i
  IN two_to_six_ordered(T0, T1, s0,
                        CHOOSE i \in shared : i # s0 /\ i # s2, s2)

\* delaunay_two_to_six_flip: the six tetrahedra are written, four of them in
\* new slots
two_to_six_create(d, t0, t1, vert, v) ==
  LET e1 == delaunay_init_tetrahedron(d, t0, vert[1], vert[2], vert[3], v)
      e2 == delaunay_init_tetrahedron(e1, t1, vert[1], v, vert[3], vert[4])
      e3 == delaunay_init_new_tetrahedron(e2, v, vert[2], vert[3], vert[4])
      e4 == delaunay_init_new_tetrahedron(e3, vert[1], vert[2], v, vert[5])
      e5 == delaunay_init_new_tetrahedron(e4, vert[1], v, vert[4], vert[5])
      e6 == delaunay_init_new_tetrahedron(e5, v, vert[2], vert[4], vert[5])
  IN [d |-> e6, tn2 |-> new_tetrahedron_index(e2),
      tn3 |-> new_tetrahedron_index(e3), tn4 |-> new_tetrahedron_index(e4),
      tn5 |-> new_tetrahedron_index(e5)]

\* delaunay_two_to_six_flip: the neighbour relations and the queue
two_to_six_wire(d, t0, t1, tn2, tn3, tn4, tn5, ngbs, idx_in_ngbs) ==
  LET e7 == TetSwaps(d, t0, tn2, t1, tn3, ngbs[5], 3, 3, 3, idx_in_ngbs[5])
      e8 == TetSwaps(e7, t1, tn2, ngbs[4], tn4, t0, 1, idx_in_ngbs[4], 3, 1)
      e9 == TetSwaps(e8, tn2, ngbs[1], t1, tn5, t0, idx_in_ngbs[1], 0, 3, 0)
      e10 == TetSwaps(e9, tn3, tn5, tn4, ngbs[6], t0, 2, 2, idx_in_ngbs[6], 2)
      e11 == TetSwaps(e10, tn4, tn5, ngbs[3], tn3, t1, 1, idx_in_ngbs[3], 1, 2)
      e12 == TetSwaps(e11, tn5, ngbs[2], tn4, tn3, tn2, idx_in_ngbs[2], 0, 0, 2)
      e13 == TetSwap(e12, ngbs[1], idx_in_ngbs[1], tn2, 0)
      e14 == TetSwap(e13, ngbs[2], idx_in_ngbs[2], tn5, 0)
      e15 == TetSwap(e14, ngbs[3], idx_in_ngbs[3], tn4, 1)
      e16 == TetSwap(e15, ngbs[4], idx_in_ngbs[4], t1, 1)
      e17 == TetSwap(e16, ngbs[5], idx_in_ngbs[5], t0, 3)
      e18 == TetSwap(e17, ngbs[6], idx_in_ngbs[6], tn3, 2)
  IN PushCheck(PushCheck(PushCheck(PushCheck(PushCheck(PushCheck(
       e18, t0), t1), tn2), tn3), tn4), tn5)

two_to_six_apply(c, t0, t1, ngbs, idx_in_ngbs) ==
  two_to_six_wire(c.d, t0, t1, c.tn2, c.tn3, c.tn4, c.tn5, ngbs, idx_in_ngbs)

two_to_six_flip(d, v, t0, t1, ix) ==
  two_to_six_apply(two_to_six_create(d, t0, t1, ix.vert, v), t0, t1, ix.ngbs,
                   ix.idx_in_ngb)

\* t is the array tetrahedra_containing_vertex.values (t[1], t[2] here)
delaunay_two_to_six_flip(d, v, t) ==
  two_to_six_flip(d, v, t[1], t[2],
                  two_to_six_indices(d.tetrahedra[t[1]], d.tetrahedra[t[2]]))

\* the n calls of delaunay_new_tetrahedron of delaunay_n_to_2n_flip:
\* the tessellation after them and the indices they returned
RECURSIVE claim_tetrahedra(_, _)
claim_tetrahedra(d, n) ==
  IF n = 0 THEN [d |-> d, idx |-> <<>>]
  ELSE LET r == claim_tetrahedra(d, n - 1)
       IN [d |-> delaunay_new_tetrahedron(r.d),
           idx |-> Append(r.idx, new_tetrahedron_index(r.d))]

\* delaunay_n_to_2n_flip: vert, ngbs and idx_in_ngb once the axis (axis0,
\* axis1, indices in t[0]) has its final order
n_to_2n_gather(d, t, n, v, axis0, axis1, tn_min_1_idx_in_t0) ==
  LET T(j) == d.tetrahedra[t[j + 1]]
      \* axis_idx_in_tj[j][0] and axis_idx_in_tj[j][1]
      ax0(j) == IndexOfVertex(T(j), T(0).vertices[axis0])
      ax1(j) == IndexOfVertex(T(j), T(0).vertices[axis1])
      tprev[j \in 0..(n - 1)] ==
        IF j = 0 THEN tn_min_1_idx_in_t0
        ELSE T(j - 1).index_in_neighbour[
               6 - tprev[j - 1] - ax0(j - 1) - ax1(j - 1)]
  IN [vert |-> [k \in 0..(n + 2) |->
                  IF k < n THEN T(k).vertices[6 - tprev[k] - ax0(k) - ax1(k)]
                  ELSE IF k = n THEN T(0).vertices[axis0]
                  ELSE IF k = n + 1 THEN T(0).vertices[axis1]
                  ELSE v],
      ngbs |-> [k \in 0..(2 * n - 1) |->
                  IF k % 2 = 0 THEN T(k \div 2).neighbours[ax0(k \div 2)]
                  ELSE T(k \div 2).neighbours[ax1(k \div 2)]],
      idx_in_ngb |-> [k \in 0..(2 * n - 1) |->
                  IF k % 2 = 0 THEN T(k \div 2).index_in_neighbour[ax0(k \div 2)]
                  ELSE T(k \div 2).index_in_neighbour[ax1(k \div 2)]]]

\* delaunay_n_to_2n_flip: the order of the axis; axisA < axisB are the indices
\* in t[0] of the two vertices shared by all n tetrahedra
n_to_2n_ordered(d, t, n, v, axisA, axisB, tn_min_1_idx_in_t0) ==
  LET t1_idx_in_t0 == 6 - axisA - axisB - tn_min_1_idx_in_t0
      swap == ~positive_permutation(t1_idx_in_t0, axisA, tn_min_1_idx_in_t0,
                                    axisB)
  IN n_to_2n_gather(d, t, n, v, IF swap THEN axisB ELSE axisA,
                    IF swap THEN axisA ELSE axisB, tn_min_1_idx_in_t0)

n_to_2n_indices(d, t, n, v) ==
  LET T(j) == d.tetrahedra[t[j + 1]]
      idx_in_tj(cur, j) == IndexOfVertex(T(j), T(0).vertices[cur])
      is_axis(cur) == \A j \in 1..(n - 1) : idx_in_tj(cur, j) < 4
      axes == {cur \in 0..3 : is_axis(cur)}
      others == {cur \in 0..3 : ~is_axis(cur) /\ idx_in_tj(cur, 1) < 4}
      axisA == Min(axes)
  IN n_to_2n_ordered(d, t, n, v, axisA, CHOOSE cur \in axes : cur # axisA,
                     IF others = {} THEN 0
                     ELSE CHOOSE cur \in others : \A o \in others : o <= cur)

\* delaunay_n_to_2n_flip: round j of the loop that writes the upper and the
\* lower tetrahedron and their neighbour relations
n_to_2n_round(e, j, n, tn, vert, ngbs, idx_in_ngb) ==
  LET tn0 == tn[2 * j]
      tn1 == tn[2 * j + 1]
      v00 == vert[j]
      v02 == vert[(j + 1) % n]
      f1 == delaunay_init_tetrahedron(e, tn0, v00, vert[n], v02, vert[n + 2])
      f2 == delaunay_init_tetrahedron(f1, tn1, v00, vert[n + 2], v02,
                                      vert[n + 1])
      t_next_upper == tn[(2 * (j + 1)) % (2 * n)]
      t_prev_upper == tn[(2 * (j - 1) + 2 * n) % (2 * n)]
      f3 == TetSwaps(f2, tn0, t_next_upper, tn1, t_prev_upper,
                     ngbs[2 * j + 1], 2, 3, 0, idx_in_ngb[2 * j + 1])
      f4 == TetSwap(f3, ngbs[2 * j + 1], idx_in_ngb[2 * j + 1], tn0, 3)
      t_next_lower == tn[(2 * (j + 1) + 1) % (2 * n)]
      t_prev_lower == tn[(2 * (j - 1) + 1 + 2 * n) % (2 * n)]
      f5 == TetSwaps(f4, tn1, t_next_lower, ngbs[2 * j], t_prev_lower, tn0,
                     2, idx_in_ngb[2 * j], 0, 1)
  IN TetSwap(f5, ngbs[2 * j], idx_in_ngb[2 * j], tn1, 1)

\* rounds j .. n - 1 of that loop
RECURSIVE n_to_2n_rounds(_, _, _, _, _, _, _)
n_to_2n_rounds(e, j, n, tn, vert, ngbs, idx_in_ngb) ==
  IF j = n THEN e
  ELSE n_to_2n_rounds(n_to_2n_round(e, j, n, tn, vert, ngbs, idx_in_ngb),
                      j + 1, n, tn, vert, ngbs, idx_in_ngb)

\* tn[k], ..., tn[n2 - 1] are pushed on the queue tetrahedra_to_check
RECURSIVE n_to_2n_enqueue(_, _, _, _)
n_to_2n_enqueue(d, tn, k, n2) ==
  IF k = n2 THEN d ELSE n_to_2n_enqueue(PushCheck(d, tn[k]), tn, k + 1, n2)

n_to_2n_write(d, n, tn, ix) ==
  n_to_2n_enqueue(n_to_2n_rounds(d, 0, n, tn, ix.vert, ix.ngbs, ix.idx_in_ngb),
                  tn, 0, 2 * n)

\* claimed is what the n calls of delaunay_new_tetrahedron gave
n_to_2n_apply(claimed, t, n, ix) ==
  n_to_2n_write(claimed.d, n,
                [k \in 0..(2 * n - 1) |->
                   IF k % 2 = 0 THEN t[(k \div 2) + 1]
                   ELSE claimed.idx[(k \div 2) + 1]],
                ix)

\* t is the array tetrahedra_containing_vertex.values (t[1] .. t[n] here)
delaunay_n_to_2n_flip(d, v, t, n) ==
  n_to_2n_apply(claim_tetrahedra(d, n), t, n, n_to_2n_indices(d, t, n, v))

\* delaunay_two_to_three_flip: the indices of the vertices of the common face
two_to_three_indices(T0, T1, top0, top1) ==
  LET tri0(i) == (top0 + i + 1) % 4
      swap == ~positive_permutation(tri0(1), tri0(2), top0, tri0(0))
      v0_0 == IF swap THEN tri0(2) ELSE tri0(1)
      v1_0 == IF swap THEN tri0(1) ELSE tri0(2)
  IN two_tetrahedra_gather(T0, T1, v0_0, v1_0, top0, tri0(0),
                           IndexOfVertex(T1, T0.vertices[v0_0]),
                           IndexOfVertex(T1, T0.vertices[v1_0]),
                           IndexOfVertex(T1, T0.vertices[tri0(0)]), top1)

\* delaunay_two_to_three_flip: the three tetrahedra are written, one of them
\* in a new slot t2
two_to_three_create(d, t0, t1, vert) ==
  LET e1 == delaunay_init_tetrahedron(d, t0, vert[1], vert[2], vert[3], vert[5])
      e2 == delaunay_init_tetrahedron(e1, t1, vert[1], vert[5], vert[3], vert[4])
  IN [d |-> delaunay_init_new_tetrahedron(e2, vert[5], vert[2], vert[3],
                                          vert[4]),
      t2 |-> new_tetrahedron_index(e2)]

\* delaunay_two_to_three_flip: the neighbour relations and the queue
two_to_three_wire(d, t0, t1, t2, ngbs, idx_in_ngb) ==
  LET e4 == TetSwaps(d, t0, t2, t1, ngbs[6], ngbs[5], 3, 3,
                     idx_in_ngb[6], idx_in_ngb[5])
      e5 == TetSwaps(e4, t1, t2, ngbs[4], ngbs[3], t0, 1,
                     idx_in_ngb[4], idx_in_ngb[3], 1)
      e6 == TetSwaps(e5, t2, ngbs[1], t1, ngbs[2], t0,
                     idx_in_ngb[1], 0, idx_in_ngb[2], 0)
      e7 == TetSwap(e6, ngbs[1], idx_in_ngb[1], t2, 0)
      e8 == TetSwap(e7, ngbs[2], idx_in_ngb[2], t2, 2)
      e9 == TetSwap(e8, ngbs[3], idx_in_ngb[3], t1, 2)
      e10 == TetSwap(e9, ngbs[4], idx_in_ngb[4], t1, 1)
      e11 == TetSwap(e10, ngbs[5], idx_in_ngb[5], t0, 3)
      e12 == TetSwap(e11, ngbs[6], idx_in_ngb[6], t0, 2)
  IN PushCheck(PushCheck(PushCheck(e12, t0), t1), t2)

two_to_three_apply(c, t0, t1, ngbs, idx_in_ngb) ==
  two_to_three_wire(c.d, t0, t1, c.t2, ngbs, idx_in_ngb)

two_to_three_flip(d, t0, t1, ix) ==
  two_to_three_apply(two_to_three_create(d, t0, t1, ix.vert), t0, t1, ix.ngbs,
                     ix.idx_in_ngb)

delaunay_two_to_three_flip(d, t0, t1, top0, top1) ==
  two_to_three_flip(d, t0, t1,
                    two_to_three_indices(d.tetrahedra[t0], d.tetrahedra[t1],
                                         top0, top1))

\* delaunay_four_to_four_flip: vert, ngbs and idx_in_ngb once the indices in
\* t0 of the vertices of the figure are known
four_to_four_gather(T0, T1, T2, T3, v0_0, v1_0, v2_0, v3_0) ==
  LET v0_1 == IndexOfVertex(T1, T0.vertices[v0_0])
      v1_1 == IndexOfVertex(T1, T0.vertices[v1_0])
      v4_1 == T0.index_in_neighbour[v2_0]
      v0_2 == IndexOfVertex(T2, T0.vertices[v0_0])
      v1_2 == IndexOfVertex(T2, T0.vertices[v1_0])
      v5_2 == T0.index_in_neighbour[v3_0]
      v0_3 == IndexOfVertex(T3, T0.vertices[v0_0])
      v1_3 == IndexOfVertex(T3, T0.vertices[v1_0])
  IN [vert |-> <<T0.vertices[v0_0], T0.vertices[v1_0], T0.vertices[v2_0],
                 T0.vertices[v3_0], T1.vertices[v4_1], T2.vertices[v5_2]>>,
      ngbs |-> <<T0.neighbours[v0_0], T1.neighbours[v0_1], T1.neighbours[v1_1],
                 T0.neighbours[v1_0], T2.neighbours[v0_2], T3.neighbours[v0_3],
                 T3.neighbours[v1_3], T2.neighbours[v1_2]>>,
      idx_in_ngb |->
        <<T0.index_in_neighbour[v0_0], T1.index_in_neighbour[v0_1],
          T1.index_in_neighbour[v1_1], T0.index_in_neighbour[v1_0],
          T2.index_in_neighbour[v0_2], T3.index_in_neighbour[v0_3],
          T3.index_in_neighbour[v1_3], T2.index_in_neighbour[v1_2]>>]

\* axisA < axisB are the indices in t0 of the vertices shared by the four
\* tetrahedra, axis03 the index of the last other one that is in t1
four_to_four_ordered(T0, T1, T2, T3, axisA, axisB, axis03) ==
  LET axis02 == 6 - axisA - axisB - axis03
      swap == ~positive_permutation(axisA, axisB, axis02, axis03)
  IN four_to_four_gather(T0, T1, T2, T3, IF swap THEN axisB ELSE axisA,
                         IF swap THEN axisA ELSE axisB, axis02, axis03)

four_to_four_indices(T0, T1, T2, T3) ==
  LET in1(i) == IndexOfVertex(T1, T0.vertices[i])
      in2(i) == IndexOfVertex(T2, T0.vertices[i])
      in3(i) == IndexOfVertex(T3, T0.vertices[i])
      is_axis(i) == in1(i) < 4 /\ in2(i) < 4 /\ in3(i) < 4
      axes == {i \in 0..3 : is_axis(i)}
      others == {i \in 0..3 : ~is_axis(i) /\ in1(i) < 4}
      axisA == Min(axes)
  IN four_to_four_ordered(T0, T1, T2, T3, axisA,
                          CHOOSE i \in axes : i # axisA,
                          CHOOSE i \in others : \A o \in others : o <= i)

\* delaunay_four_to_four_flip: the four tetrahedra, their neighbour relations
\* and the queue
four_to_four_flip(d, t0, t1, t2, t3, vert, ngbs, idx_in_ngb) ==
  LET e1 == delaunay_init_tetrahedron(d, t0, vert[1], vert[4], vert[6], vert[3])
      e2 == delaunay_init_tetrahedron(e1, t1, vert[2], vert[6], vert[4], vert[3])
      e3 == delaunay_init_tetrahedron(e2, t2, vert[1], vert[6], vert[4], vert[5])
      e4 == delaunay_init_tetrahedron(e3, t3, vert[2], vert[4], vert[6], vert[5])
      e5 == TetSwaps(e4, t0, t1, ngbs[8], ngbs[4], t2, 0,
                     idx_in_ngb[8], idx_in_ngb[4], 3)
      e6 == TetSwaps(e5, t1, t0, ngbs[1], ngbs[5], t3, 0,
                     idx_in_ngb[1], idx_in_ngb[5], 3)
      e7 == TetSwaps(e6, t2, t3, ngbs[3], ngbs[7], t0, 0,
                     idx_in_ngb[3], idx_in_ngb[7], 3)
      e8 == TetSwaps(e7, t3, t2, ngbs[6], ngbs[2], t1, 0,
                     idx_in_ngb[6], idx_in_ngb[2], 3)
      e9 == TetSwap(e8, ngbs[1], idx_in_ngb[1], t1, 1)
      e10 == TetSwap(e9, ngbs[2], idx_in_ngb[2], t3, 2)
      e11 == TetSwap(e10, ngbs[3], idx_in_ngb[3], t2, 1)
      e12 == TetSwap(e11, ngbs[4], idx_in_ngb[4], t0, 2)
      e13 == TetSwap(e12, ngbs[5], idx_in_ngb[5], t1, 2)
      e14 == TetSwap(e13, ngbs[6], idx_in_ngb[6], t3, 1)
      e15 == TetSwap(e14, ngbs[7], idx_in_ngb[7], t2, 2)
      e16 == TetSwap(e15, ngbs[8], idx_in_ngb[8], t0, 1)
  IN PushCheck(PushCheck(PushCheck(PushCheck(e16, t0), t1), t2), t3)

four_to_four_apply(d, t0, t1, t2, t3, ix) ==
  four_to_four_flip(d, t0, t1, t2, t3, ix.vert, ix.ngbs, ix.idx_in_ngb)

delaunay_four_to_four_flip(d, t0, t1, t2, t3) ==
  four_to_four_apply(d, t0, t1, t2, t3,
                     four_to_four_indices(d.tetrahedra[t0], d.tetrahedra[t1],
                                          d.tetrahedra[t2], d.tetrahedra[t3]))

\* delaunay_three_to_two_flip: vert, ngbs and idx_in_ngb once the indices in
\* t0 of the vertices of the figure are known
three_to_two_gather(T0, T1, T2, v0_0, v1_0, v2_0, v4_0) ==
  LET v2_1 == IndexOfVertex(T1, T0.vertices[v2_0])
      v3_1 == T0.index_in_neighbour[v1_0]
      v4_1 == IndexOfVertex(T1, T0.vertices[v4_0])
      v2_2 == IndexOfVertex(T2, T0.vertices[v2_0])
      v4_2 == IndexOfVertex(T2, T0.vertices[v4_0])
  IN [vert |-> <<T0.vertices[v0_0], T0.vertices[v1_0], T0.vertices[v2_0],
                 T1.vertices[v3_1], T0.vertices[v4_0]>>,
      ngbs |-> <<T2.neighbours[v4_2], T2.neighbours[v2_2], T1.neighbours[v2_1],
                 T1.neighbours[v4_1], T0.neighbours[v4_0], T0.neighbours[v2_0]>>,
      idx_in_ngb |->
        <<T2.index_in_neighbour[v4_2], T2.index_in_neighbour[v2_2],
          T1.index_in_neighbour[v2_1], T1.index_in_neighbour[v4_1],
          T0.index_in_neighbour[v4_0], T0.index_in_neighbour[v2_0]>>]

\* axisA < axisB are the indices in t0 of the vertices shared by the three
\* tetrahedra, axis02 the index of the last other one that is in t1
three_to_two_ordered(T0, T1, T2, axisA, axisB, axis02) ==
  LET axis03 == 6 - axisA - axisB - axis02
      swap == ~positive_permutation(axis02, axis03, axisA, axisB)
  IN three_to_two_gather(T0, T1, T2, axis02, axis03,
                         IF swap THEN axisB ELSE axisA,
                         IF swap THEN axisA ELSE axisB)

three_to_two_indices(T0, T1, T2) ==
  LET in1(i) == IndexOfVertex(T1, T0.vertices[i])
      in2(i) == IndexOfVertex(T2, T0.vertices[i])
      is_axis(i) == in1(i) < 4 /\ in2(i) < 4
      axes == {i \in 0..3 : is_axis(i)}
      others == {i \in 0..3 : ~is_axis(i) /\ in1(i) < 4}
      axisA == Min(axes)
  IN three_to_two_ordered(T0, T1, T2, axisA, CHOOSE i \in axes : i # axisA,
                          CHOOSE i \in others : \A o \in others : o <= i)

\* delaunay_three_to_two_flip that keeps the tetrahedron it returns as the
\* next guess
three_to_two_flip_returned_touched(d, t0, t1, t2, vert, ngbs, idx_in_ngb) ==
  LET e1 == delaunay_init_tetrahedron(d, t0, vert[1], vert[2], vert[3], vert[4])
      e2 == delaunay_init_tetrahedron(e1, t1, vert[1], vert[2], vert[4], vert[5])
      e3 == [e2 EXCEPT !.tetrahedra[t2] = tetrahedron_deactivate(@),
                       !.last_tetrahedron = t2]
      e4 == TetSwaps(e3, t0, ngbs[1], ngbs[4], t1, ngbs[5],
                     idx_in_ngb[1], idx_in_ngb[4], 3, idx_in_ngb[5])
      e5 == TetSwaps(e4, t1, ngbs[2], ngbs[3], ngbs[6], t0,
                     idx_in_ngb[2], idx_in_ngb[3], idx_in_ngb[6], 2)
      e6 == TetSwap(e5, ngbs[1], idx_in_ngb[1], t0, 0)
      e7 == TetSwap(e6, ngbs[2], idx_in_ngb[2], t1, 0)
      e8 == TetSwap(e7, ngbs[3], idx_in_ngb[3], t1, 1)
      e9 == TetSwap(e8, ngbs[4], idx_in_ngb[4], t0, 1)
      e10 == TetSwap(e9, ngbs[5], idx_in_ngb[5], t0, 3)
      e11 == TetSwap(e10, ngbs[6], idx_in_ngb[6], t1, 2)
  IN PushCheck(PushCheck(e11, t0), t1)

\* delaunay_three_to_two_flip that leaves the third tetrahedron active
three_to_two_flip_not_deactivated(d, t0, t1, t2, vert, ngbs, idx_in_ngb) ==
  LET e1 == delaunay_init_tetrahedron(d, t0, vert[1], vert[2], vert[3], vert[4])
      e2 == delaunay_init_tetrahedron(e1, t1, vert[1], vert[2], vert[4], vert[5])
      e3 == e2
      e4 == TetSwaps(e3, t0, ngbs[1], ngbs[4], t1, ngbs[5],
                     idx_in_ngb[1], idx_in_ngb[4], 3, idx_in_ngb[5])
      e5 == TetSwaps(e4, t1, ngbs[2], ngbs[3], ngbs[6], t0,
                     idx_in_ngb[2], idx_in_ngb[3], idx_in_ngb[6], 2)
      e6 == TetSwap(e5, ngbs[1], idx_in_ngb[1], t0, 0)
      e7 == TetSwap(e6, ngbs[2], idx_in_ngb[2], t1, 0)
      e8 == TetSwap(e7, ngbs[3], idx_in_ngb[3], t1, 1)
      e9 == TetSwap(e8, ngbs[4], idx_in_ngb[4], t0, 1)
      e10 == TetSwap(e9, ngbs[5], idx_in_ngb[5], t0, 3)
      e11 == TetSwap(e10, ngbs[6], idx_in_ngb[6], t1, 2)
  IN PushCheck(PushCheck(e11, t0), t1)

\* delaunay_three_to_two_flip: the two tetrahedra, the freed one, the
\* neighbour relations and the queue
three_to_two_flip(d, t0, t1, t2, vert, ngbs, idx_in_ngb) ==
  LET e1 == delaunay_init_tetrahedron(d, t0, vert[1], vert[2], vert[3], vert[4])
      e2 == delaunay_init_tetrahedron(e1, t1, vert[1], vert[2], vert[4], vert[5])
      e3 == [e2 EXCEPT !.tetrahedra[t2] = tetrahedron_deactivate(@)]
      e4 == TetSwaps(e3, t0, ngbs[1], ngbs[4], t1, ngbs[5],
                     idx_in_ngb[1], idx_in_ngb[4], 3, idx_in_ngb[5])
      e5 == TetSwaps(e4, t1, ngbs[2], ngbs[3], ngbs[6], t0,
                     idx_in_ngb[2], idx_in_ngb[3], idx_in_ngb[6], 2)
      e6 == TetSwap(e5, ngbs[1], idx_in_ngb[1], t0, 0)
      e7 == TetSwap(e6, ngbs[2], idx_in_ngb[2], t1, 0)
      e8 == TetSwap(e7, ngbs[3], idx_in_ngb[3], t1, 1)
      e9 == TetSwap(e8, ngbs[4], idx_in_ngb[4], t0, 1)
      e10 == TetSwap(e9, ngbs[5], idx_in_ngb[5], t0, 3)
      e11 == TetSwap(e10, ngbs[6], idx_in_ngb[6], t1, 2)
  IN PushCheck(PushCheck(e11, t0), t1)

three_to_two_apply(d, t0, t1, t2, ix) ==
  three_to_two_flip(d, t0, t1, t2, ix.vert, ix.ngbs, ix.idx_in_ngb)

\* the tessellation after the flip; the function returns t2
delaunay_three_to_two_flip(d, t0, t1, t2) ==
  three_to_two_apply(d, t0, t1, t2,
                     three_to_two_indices(d.tetrahedra[t0], d.tetrahedra[t1],
                                          d.tetrahedra[t2]))

\* what delaunay_check_tetrahedron decides for tetrahedron t after the
\* insertion of v.  kind is "abort", "dummy" (no neighbour to check),
\* "valid", "2to3", "4to4", "4to4_deferred", "3to2" or "3to2_deferred"
check_result(kind, ngb, idx_in_ngb, top, other_ngb, other_ngbs_ngb) ==
  [kind |-> kind, ngb |-> ngb, idx_in_ngb |-> idx_in_ngb, top |-> top,
   other_ngb |-> other_ngb, other_ngbs_ngb |-> other_ngbs_ngb]

\* check_tetrahedron_invalid that looks for the tetrahedron next to t, not
\* for the one beyond it, among the neighbours of ngb before a 4-to-4 flip
check_tetrahedron_invalid_fourth_not_followed(d, T, v, top, ngb, idx_in_ngb, tests) ==
  LET nonneg == {k \in 0..3 : ~(tests[k + 1] < 0)}
      i == IF nonneg = {} THEN 4 ELSE Min(nonneg)
      non_axis == 3 - i
      other_ngb == T.neighbours[non_axis]
      other_ngbs_ngb ==
        d.tetrahedra[other_ngb].neighbours[
          IndexOfVertex(d.tetrahedra[other_ngb], v)]
  IN IF i = 4 THEN check_result("2to3", ngb, idx_in_ngb, top, -1, -1)
     ELSE IF tests[i + 1] = 0
       THEN IF tetrahedron_is_neighbour(d.tetrahedra[ngb], other_ngb) < 4
              THEN check_result("4to4", ngb, idx_in_ngb, top, other_ngb,
                                other_ngbs_ngb)
              ELSE check_result("4to4_deferred", ngb, idx_in_ngb, top,
                                other_ngb, other_ngbs_ngb)
     ELSE IF tetrahedron_is_neighbour(d.tetrahedra[ngb], other_ngb) < 4
       THEN check_result("3to2", ngb, idx_in_ngb, top, other_ngb, -1)
       ELSE check_result("3to2_deferred", ngb, idx_in_ngb, top, other_ngb, -1)

\* check_tetrahedron_invalid whose loop over the tests also walks past a
\* test that is zero
check_tetrahedron_invalid_zero_passed(d, T, v, top, ngb, idx_in_ngb, tests) ==
  LET nonneg == {k \in 0..3 : ~(tests[k + 1] <= 0)}
      i == IF nonneg = {} THEN 4 ELSE Min(nonneg)
      non_axis == 3 - i
      other_ngb == T.neighbours[non_axis]
      other_ngbs_ngb ==
        d.tetrahedra[other_ngb].neighbours[
          IndexOfVertex(d.tetrahedra[other_ngb], v)]
  IN IF i = 4 THEN check_result("2to3", ngb, idx_in_ngb, top, -1, -1)
     ELSE IF tests[i + 1] = 0
       THEN IF tetrahedron_is_neighbour(d.tetrahedra[ngb], other_ngbs_ngb) < 4
              THEN check_result("4to4", ngb, idx_in_ngb, top, other_ngb,
                                other_ngbs_ngb)
              ELSE check_result("4to4_deferred", ngb, idx_in_ngb, top,
                                other_ngb, other_ngbs_ngb)
     ELSE IF tetrahedron_is_neighbour(d.tetrahedra[ngb], other_ngb) < 4
       THEN check_result("3to2", ngb, idx_in_ngb, top, other_ngb, -1)
       ELSE check_result("3to2_deferred", ngb, idx_in_ngb, top, other_ngb, -1)

\* the in_sphere test failed; tests holds the four orientation tests (-1 for
\* the one that is skipped)
check_tetrahedron_invalid(d, T, v, top, ngb, idx_in_ngb, tests) ==
  LET nonneg == {k \in 0..3 : ~(tests[k + 1] < 0)}
      i == IF nonneg = {} THEN 4 ELSE Min(nonneg)
      non_axis == 3 - i
      other_ngb == T.neighbours[non_axis]
      other_ngbs_ngb ==
        d.tetrahedra[other_ngb].neighbours[
          IndexOfVertex(d.tetrahedra[other_ngb], v)]
  IN IF i = 4 THEN check_result("2to3", ngb, idx_in_ngb, top, -1, -1)
     ELSE IF tests[i + 1] = 0
       THEN IF tetrahedron_is_neighbour(d.tetrahedra[ngb], other_ngbs_ngb) < 4
              THEN check_result("4to4", ngb, idx_in_ngb, top, other_ngb,
                                other_ngbs_ngb)
              ELSE check_result("4to4_deferred", ngb, idx_in_ngb, top,
                                other_ngb, other_ngbs_ngb)
     ELSE IF tetrahedron_is_neighbour(d.tetrahedra[ngb], other_ngb) < 4
       THEN check_result("3to2", ngb, idx_in_ngb, top, other_ngb, -1)
       ELSE check_result("3to2_deferred", ngb, idx_in_ngb, top, other_ngb, -1)

\* the neighbour ngb opposite v is a tetrahedron; v4 is its vertex opposite t
check_tetrahedron_neighbour(d, v, top, ngb, idx_in_ngb, v0, v1, v2, v3, v4, T) ==
  IF ~(in_sphere_vertices(d, v0, v1, v2, v3, v4) < 0)
    THEN check_result("valid", ngb, idx_in_ngb, top, -1, -1)
  ELSE check_tetrahedron_invalid(
         d, T, v, top, ngb, idx_in_ngb,
         <<IF top # 3 THEN orient_vertices(d, v0, v1, v2, v4) ELSE -1,
           IF top # 2 THEN orient_vertices(d, v0, v1, v4, v3) ELSE -1,
           IF top # 1 THEN orient_vertices(d, v0, v4, v2, v3) ELSE -1,
           IF top # 0 THEN orient_vertices(d, v4, v1, v2, v3) ELSE -1>>)

check_tetrahedron_top(d, v, T, top) ==
  LET ngb == T.neighbours[top]
      idx_in_ngb == T.index_in_neighbour[top]
  IN IF ngb < 4 THEN check_result("dummy", ngb, idx_in_ngb, top, -1, -1)
     ELSE check_tetrahedron_neighbour(
            d, v, top, ngb, idx_in_ngb, T.vertices[0], T.vertices[1],
            T.vertices[2], T.vertices[3],
            d.tetrahedra[ngb].vertices[idx_in_ngb], T)

check_tetrahedron_case(d, t, v) ==
  LET top == IndexOfVertex(d.tetrahedra[t], v)
  IN IF top = 4 THEN [kind |-> "abort"]
     ELSE check_tetrahedron_top(d, v, d.tetrahedra[t], top)

\* check_tetrahedron_apply that leaves every 4-to-4 candidate alone
check_tetrahedron_apply_no_four_to_four(d, t, c) ==
  CASE c.kind = "2to3" ->
         [d |-> delaunay_two_to_three_flip(d, t, c.ngb, c.top, c.idx_in_ngb),
          freed |-> -1, kind |-> c.kind]
    [] c.kind = "3to2" ->
         [d |-> delaunay_three_to_two_flip(d, t, c.ngb, c.other_ngb),
          freed |-> c.other_ngb, kind |-> c.kind]
    [] OTHER -> [d |-> d, freed |-> -1, kind |-> c.kind]

\* check_tetrahedron_apply that puts a tetrahedron whose flip is deferred
\* back on the queue
check_tetrahedron_apply_requeue_deferred(d, t, c) ==
  CASE c.kind = "2to3" ->
         [d |-> delaunay_two_to_three_flip(d, t, c.ngb, c.top, c.idx_in_ngb),
          freed |-> -1, kind |-> c.kind]
    [] c.kind = "4to4" ->
         [d |-> delaunay_four_to_four_flip(d, t, c.other_ngb, c.ngb,
                                           c.other_ngbs_ngb),
          freed |-> -1, kind |-> c.kind]
    [] c.kind = "3to2" ->
         [d |-> delaunay_three_to_two_flip(d, t, c.ngb, c.other_ngb),
          freed |-> c.other_ngb, kind |-> c.kind]
    [] c.kind \in {"4to4_deferred", "3to2_deferred"} ->
         [d |-> PushCheck(d, t), freed |-> -1, kind |-> c.kind]
    [] OTHER -> [d |-> d, freed |-> -1, kind |-> c.kind]

\* the flip that goes with the case c; freed is the value
\* delaunay_check_tetrahedron returns (the freed tetrahedron or -1)
check_tetrahedron_apply(d, t, c) ==
  CASE c.kind = "2to3" ->
         [d |-> delaunay_two_to_three_flip(d, t, c.ngb, c.top, c.idx_in_ngb),
          freed |-> -1, kind |-> c.kind]
    [] c.kind = "4to4" ->
         [d |-> delaunay_four_to_four_flip(d, t, c.other_ngb, c.ngb,
                                           c.other_ngbs_ngb),
          freed |-> -1, kind |-> c.kind]
    [] c.kind = "3to2" ->
         [d |-> delaunay_three_to_two_flip(d, t, c.ngb, c.other_ngb),
          freed |-> c.other_ngb, kind |-> c.kind]
    [] OTHER -> [d |-> d, freed |-> -1, kind |-> c.kind]

delaunay_check_tetrahedron(d, t, v) ==
  check_tetrahedron_apply(d, t, check_tetrahedron_case(d, t, v))

\* the queue after get_next_tetrahedron_to_check has popped the inactive
\* tetrahedra on top of it; the function returns its last element, or -1
\* if it is empty
RECURSIVE skip_inactive(_, _)
skip_inactive(d, q) ==
  IF q = <<>> \/ d.tetrahedra[Last(q)].active # 0 THEN q
  ELSE skip_inactive(d, Front(q))

\* delaunay_consolidate that takes the end of the local vertices for the
\* ghost offset
delaunay_consolidate_3d_vertex_end(d) == [d EXCEPT !.ghost_offset = d.vertex_end]

delaunay_consolidate_3d(d) == [d EXCEPT !.ghost_offset = d.vertex_index]

(* delaunay_add_vertex, 3D, step by step *)

\* entry of delaunay_add_vertex(d, v) and of
\* delaunay_find_tetrahedra_containing_vertex
add_vertex_begin_3d(d, v) ==
  [d |-> [d EXCEPT !.tetrahedra_containing_vertex = <<>>],
   f |-> [IdleFrame EXCEPT !.pc = "locate", !.v = v, !.t0 = d.last_tetrahedron]]

\* the machine state after a round of the walk that decided r
add_vertex_located_3d(m, r) ==
  IF r.kind = "move" THEN [m EXCEPT !.f.t0 = r.idx]
  ELSE IF r.kind = "found"
    THEN [m EXCEPT !.d.tetrahedra_containing_vertex = r.values,
                   !.f.pc = "split"]
  ELSE [m EXCEPT !.f = AbortFrame]

\* one round of the loop of delaunay_find_tetrahedra_containing_vertex
add_vertex_locate_3d(m) ==
  add_vertex_located_3d(m, find_tetrahedra_step(m.d, m.f.v, m.f.t0))

\* the insertion flip chosen by delaunay_add_vertex for the n tetrahedra t
add_vertex_flip_3d(d, v, t, number_of_tetrahedra) ==
  IF number_of_tetrahedra = 1 THEN delaunay_one_to_four_flip(d, v, t[1])
  ELSE IF number_of_tetrahedra = 2 THEN delaunay_two_to_six_flip(d, v, t)
  ELSE delaunay_n_to_2n_flip(d, v, t, number_of_tetrahedra)

add_vertex_split_3d(m) ==
  IF \E k \in 1..Len(m.d.tetrahedra_containing_vertex) :
       ~(m.d.tetrahedra_containing_vertex[k] > 3)
    \* a dummy is to be replaced: its vertex -1 and its neighbours -1 are
    \* used as indices
    THEN [m EXCEPT !.f = AbortFrame]
  ELSE [d |-> add_vertex_flip_3d(m.d, m.f.v, m.d.tetrahedra_containing_vertex,
                                 Len(m.d.tetrahedra_containing_vertex)),
        f |-> [IdleFrame EXCEPT !.pc = "check", !.v = m.f.v]]

\* check_tetrahedra_checked that pushes the freed tetrahedron on the free
\* list at once
check_tetrahedra_checked_released_at_once(m, r) ==
  IF r.kind = "abort" THEN [m EXCEPT !.f = AbortFrame]
  ELSE [d |-> [r.d EXCEPT !.free_tetrahedron_indices =
                            IF r.freed >= 0 THEN Append(@, r.freed) ELSE @],
        f |-> m.f]

\* the machine state after delaunay_check_tetrahedron gave r
check_tetrahedra_checked(m, r) ==
  IF r.kind = "abort" THEN [m EXCEPT !.f = AbortFrame]
  ELSE [d |-> r.d,
        f |-> [m.f EXCEPT !.freed = IF r.freed >= 0 THEN Append(@, r.freed)
                                                    ELSE @]]

\* check_tetrahedra_next that returns without handing the freed tetrahedra
\* to the free list
check_tetrahedra_next_freed_lost(m, q) ==
  IF q # <<>>
    THEN check_tetrahedra_checked(
           m, delaunay_check_tetrahedron(
                [m.d EXCEPT !.tetrahedra_to_check = Front(q)], Last(q), m.f.v))
    ELSE [d |-> [m.d EXCEPT !.tetrahedra_to_check = <<>>], f |-> IdleFrame]

\* q is the queue once the inactive tetrahedra on top of it are popped
check_tetrahedra_next(m, q) ==
  IF q # <<>>
    THEN check_tetrahedra_checked(
           m, delaunay_check_tetrahedron(
                [m.d EXCEPT !.tetrahedra_to_check = Front(q)], Last(q), m.f.v))
    ELSE [d |-> [m.d EXCEPT !.tetrahedra_to_check = <<>>,
                            !.free_tetrahedron_indices = @ \o m.f.freed],
          f |-> IdleFrame]

\* One round of the loop of delaunay_check_tetrahedra: the next active
\* tetrahedron is popped and checked; when there is none, the freed
\* tetrahedra are pushed on the free list and the function returns.
delaunay_check_tetrahedra_step(m) ==
  check_tetrahedra_next(m, skip_inactive(m.d, m.d.tetrahedra_to_check))

\* delaunay_add_vertex(d, v) as one call, from the machine state m to the
\* return or the abort
RECURSIVE delaunay_add_vertex_3d(_)
delaunay_add_vertex_3d(m) ==
  IF m.f.pc = "locate" THEN delaunay_add_vertex_3d(add_vertex_locate_3d(m))
  ELSE IF m.f.pc = "split" THEN delaunay_add_vertex_3d(add_vertex_split_3d(m))
  ELSE IF m.f.pc = "check"
    THEN delaunay_add_vertex_3d(delaunay_check_tetrahedra_step(m))
  ELSE m

\* delaunay_add_new_vertex(d, x, y, z) as one call
delaunay_add_new_vertex_3d(d, x, y, z) ==
  delaunay_add_vertex_3d(
    add_vertex_begin_3d(delaunay_new_vertex_3d(d, x, y, z), d.vertex_index))

-----------------------------------------------------------------------------
(* The points the caller may insert (grid units, relative to hs->anchor)   *)

Points2D == {<<0, 0>>, <<2, 0>>, <<0, 2>>, <<2, 2>>, <<1, 1>>, <<1, 0>>}

\* the vertices between the local ones and the ghosts are the super vertices
SuperVertices2D(d) == d.vertex_end .. (d.vertex_end + 2)

InsertedVertices2D(d) ==
  {v \in 0..(d.vertex_index - 1) :
     v \notin SuperVertices2D(d) /\ d.integer_vertices[v] # <<>>}

UserPoint2D(d, v) ==
  <<d.integer_vertices[v][1] + d.anchor, d.integer_vertices[v][2] + d.anchor>>

FreeLocal2D(d) ==
  {v \in d.vertex_start..(d.vertex_end - 1) : d.integer_vertices[v] = <<>>}

Points3D ==
  {<<0, 0, 0>>, <<0, 0, 1>>, <<1, 1, 1>>, <<2, 1, 0>>, <<2, 2, 2>>, <<0, 2, 1>>}

SuperVertices3D(d) == d.vertex_end .. (d.vertex_end + 3)

InsertedVertices3D(d) ==
  {v \in 0..(d.vertex_index - 1) :
     v \notin SuperVertices3D(d) /\ d.integer_vertices[v] # <<>>}

UserPoint3D(d, v) ==
  <<d.integer_vertices[v][1] + d.anchor, d.integer_vertices[v][2] + d.anchor,
    d.integer_vertices[v][3] + d.anchor>>

FreeLocal3D(d) ==
  {v \in d.vertex_start..(d.vertex_end - 1) : d.integer_vertices[v] = <<>>}

-----------------------------------------------------------------------------
(* voronoi3d.h                                                             *)
(* A grid vertex is a point with rational coordinates: <<x, y, z, w>>      *)
(* stands for (x / w, y / w, z / w), in lowest terms with w > 0.  The      *)
(* volumes, centroids, areas and midpoints the extractor derives from the  *)
(* grid vertices are numbers computed by geometry routines and are not     *)
(* carried; the grid keeps the cells, the pairs and their vertex lists.    *)

\* three NANs
NAN == <<0, 0, 0, 0>>

Abs(x) == IF x < 0 THEN -x ELSE x


\* the point (x / w, y / w, z / w) in lowest terms
reduced(x, y, z, w) ==
  LET g == GCD(GCD(Abs(x), Abs(y)), GCD(Abs(z), Abs(w)))
      s == IF w < 0 THEN -g ELSE g
  IN IF w = 0 THEN NAN ELSE <<x \div s, y \div s, z \div s, w \div s>>

\* the point at equal distance of the four points v0, v1, v2, v3
geometry3d_compute_circumcenter(v0x, v0y, v0z, v1x, v1y, v1z, v2x, v2y, v2z, v3x, v3y, v3z) ==
  LET r1x == v1x - v0x  r1y == v1y - v0y  r1z == v1z - v0z
      r2x == v2x - v0x  r2y == v2y - v0y  r2z == v2z - v0z
      r3x == v3x - v0x  r3y == v3y - v0y  r3z == v3z - v0z
      n1 == r1x * r1x + r1y * r1y + r1z * r1z
      n2 == r2x * r2x + r2y * r2y + r2z * r2z
      n3 == r3x * r3x + r3y * r3y + r3z * r3z
      c23x == r2y * r3z - r2z * r3y
      c23y == r2z * r3x - r2x * r3z
      c23z == r2x * r3y - r2y * r3x
      c31x == r3y * r1z - r3z * r1y
      c31y == r3z * r1x - r3x * r1z
      c31z == r3x * r1y - r3y * r1x
      c12x == r1y * r2z - r1z * r2y
      c12y == r1z * r2x - r1x * r2z
      c12z == r1x * r2y - r1y * r2x
      det == r1x * c23x + r1y * c23y + r1z * c23z
  IN reduced(2 * det * v0x + n1 * c23x + n2 * c31x + n3 * c12x,
             2 * det * v0y + n1 * c23y + n2 * c31y + n3 * c12y,
             2 * det * v0z + n1 * c23z + n2 * c31z + n3 * c12z,
             2 * det)

\* number_of_cells that leaves the last local vertex out
number_of_cells_one_short(d) == d.vertex_end - d.vertex_start - 1

\* v->number_of_cells
number_of_cells(d) == d.vertex_end - d.vertex_start

\* voronoi_vertex_skipped that skips a tetrahedron as soon as one of its
\* vertices is no generator
voronoi_vertex_skipped_any_vertex(d, i) ==
  LET t == d.tetrahedra[i + 4]
  IN t.active = 0 \/ \E j \in 0..3 : t.vertices[j] >= number_of_cells(d)

\* the tetrahedron of grid vertex i is inactive or linked to no generator
voronoi_vertex_skipped(d, i) ==
  LET t == d.tetrahedra[i + 4]
  IN t.active = 0 \/ \A j \in 0..3 : t.vertices[j] >= number_of_cells(d)

\* the position of vertex x is read: x is a local vertex or a ghost
voronoi_vertex_known(d, x) == x < d.vertex_end \/ x >= d.ghost_offset

\* voronoi_error is reached in the loop over the Delaunay tetrahedra
voronoi_vertices_error(d) ==
  \E i \in 0..(d.tetrahedron_index - 5) :
    /\ ~voronoi_vertex_skipped(d, i)
    /\ \E j \in 0..3 : ~voronoi_vertex_known(d, d.tetrahedra[i + 4].vertices[j])

\* the circumcenter of tetrahedron t of d
tetrahedron_circumcenter(d, t) ==
  LET p0 == UserPoint3D(d, d.tetrahedra[t].vertices[0])
      p1 == UserPoint3D(d, d.tetrahedra[t].vertices[1])
      p2 == UserPoint3D(d, d.tetrahedra[t].vertices[2])
      p3 == UserPoint3D(d, d.tetrahedra[t].vertices[3])
  IN geometry3d_compute_circumcenter(p0[1], p0[2], p0[3], p1[1], p1[2], p1[3],
                                     p2[1], p2[2], p2[3], p3[1], p3[2], p3[3])

\* the array voronoi_vertices after the loop over the Delaunay tetrahedra
voronoi_vertices(d) ==
  [i \in 0..(d.tetrahedron_index - 5) |->
     IF voronoi_vertex_skipped(d, i) THEN NAN
     ELSE tetrahedron_circumcenter(d, i + 4)]

\* the grid after the allocations of voronoi_init
voronoi_allocated(d) ==
  [number_of_cells |-> number_of_cells(d),
   cells |-> [i \in 0..(number_of_cells(d) - 1) |-> [nface |-> Uninit]],
   pairs |-> Arr2(<<>>, <<>>),
   pair_index |-> Arr2(0, 0),
   pair_size |-> Arr2(10, 10)]

voronoi_pair_init(left_part_pointer, right_part_pointer, vertices, n_vertices) ==
  [left |-> left_part_pointer,
   right |-> right_part_pointer,
   vertices |-> SubSeq(vertices, 1, n_vertices),
   n_vertices |-> n_vertices]

voronoi_new_face(v, sid, left_part_pointer, right_part_pointer, vertices, n_vertices) ==
  [v EXCEPT !.pair_size[sid] = IF v.pair_index[sid] = @ THEN 2 * @ ELSE @,
            !.pairs[sid] = Append(@, voronoi_pair_init(left_part_pointer, right_part_pointer, vertices, n_vertices)),
            !.pair_index[sid] = @ + 1]

\* The state of the sweep of one generator: q holds neighbour_info_q.values
\* (every triple pushed so far), head the number of triples popped, flags
\* the vertices whose neighbour flag is set, nface the faces counted and v
\* the grid.  status leaves "ok" when the sweep reads outside the arrays.
\* fans keeps, for every axis popped, the tetrahedra the rotation went
\* through, and read the tetrahedra whose grid vertex was read.

\* (t, x, i) is pushed on the queue unless the flag of x is set
voronoi_push(s, t, x, i) ==
  IF x \in s.flags THEN s
  ELSE [s EXCEPT !.q = Append(@, <<t, x, i>>), !.flags = @ \cup {x}]

\* the first slot of tetrahedron t, from slot i on, that holds neither the
\* generator nor the axis vertex
RECURSIVE next_t_idx_in_cur_t(_, _, _, _)
next_t_idx_in_cur_t(t, i, gen_idx_in_d, axis_idx_in_d) ==
  IF t.vertices[i] = gen_idx_in_d \/ t.vertices[i] = axis_idx_in_d
    THEN next_t_idx_in_cur_t(t, (i + 1) % 4, gen_idx_in_d, axis_idx_in_d)
    ELSE i

\* tetrahedron t has a grid vertex
has_grid_vertex(d, t) == t >= 4 /\ t < d.tetrahedron_index

\* The loop around the axis.  r holds the sweep state, the face vertices
\* collected so far, first_t_idx, cur_t_idx, next_t_idx_in_cur_t and
\* next_t_idx; every round appends the grid vertices of cur_t and next_t.
RECURSIVE voronoi_loop_around_axis(_, _, _, _, _)
voronoi_loop_around_axis(d, vv, gen_idx_in_d, axis_idx_in_d, r) ==
  IF r.next_t_idx = r.first_t_idx THEN r
  ELSE IF ~has_grid_vertex(d, r.cur_t_idx) \/ ~has_grid_vertex(d, r.next_t_idx)
            \/ Len(r.face_vertices) > 2 * d.tetrahedron_index
    THEN [r EXCEPT !.s.status = "out_of_bounds"]
  ELSE LET cur_t == d.tetrahedra[r.next_t_idx]
           prev_t_idx_in_cur_t ==
             d.tetrahedra[r.cur_t_idx].index_in_neighbour[r.next_t_idx_in_cur_t]
           nxt == next_t_idx_in_cur_t(cur_t, (prev_t_idx_in_cur_t + 1) % 4,
                                      gen_idx_in_d, axis_idx_in_d)
       IN voronoi_loop_around_axis(d, vv, gen_idx_in_d, axis_idx_in_d,
            [r EXCEPT !.face_vertices =
                        @ \o <<vv[r.cur_t_idx - 4], vv[r.next_t_idx - 4]>>,
                      !.cur_t_idx = r.next_t_idx,
                      !.next_t_idx_in_cur_t = nxt,
                      !.next_t_idx = cur_t.neighbours[nxt],
                      !.fan = Append(@, r.next_t_idx),
                      !.s = voronoi_push(
                              [@ EXCEPT !.read = @ \cup {r.cur_t_idx, r.next_t_idx}],
                              r.next_t_idx, cur_t.vertices[nxt], nxt)])

\* voronoi_store_face without the test that stores a face between two local
\* vertices only once
voronoi_store_face_both_sides(d, v, gen_idx_in_d, axis_idx_in_d, face_vertices) ==
  IF axis_idx_in_d < d.vertex_end
    THEN voronoi_new_face(v, 0, gen_idx_in_d, axis_idx_in_d,
                          face_vertices, Len(face_vertices))
    ELSE voronoi_new_face(v, 1, gen_idx_in_d, axis_idx_in_d,
                          face_vertices, Len(face_vertices))

\* the face of the edge (gen_idx_in_d, axis_idx_in_d) is stored: once, from
\* the smaller index, between two local vertices and always otherwise
voronoi_store_face(d, v, gen_idx_in_d, axis_idx_in_d, face_vertices) ==
  IF axis_idx_in_d < d.vertex_end
    THEN IF gen_idx_in_d < axis_idx_in_d
           THEN voronoi_new_face(v, 0, gen_idx_in_d, axis_idx_in_d,
                                 face_vertices, Len(face_vertices))
           ELSE v
    ELSE voronoi_new_face(v, 1, gen_idx_in_d, axis_idx_in_d,
                          face_vertices, Len(face_vertices))

\* the rotation around the popped axis, started in first_t
voronoi_rotate(d, vv, gen_idx_in_d, info, s) ==
  LET first_t_idx == info[1]
      axis_idx_in_d == info[2]
      first_t == d.tetrahedra[first_t_idx]
      after_axis == (info[3] + 1) % 4
      non_axis_idx_in_first_t ==
        IF first_t.vertices[after_axis] = gen_idx_in_d
          THEN (after_axis + 1) % 4 ELSE after_axis
      s1 == voronoi_push(s, first_t_idx,
                         first_t.vertices[non_axis_idx_in_first_t],
                         non_axis_idx_in_first_t)
      cur_t_idx == first_t.neighbours[non_axis_idx_in_first_t]
      cur_t == d.tetrahedra[cur_t_idx]
      prev_t_idx_in_cur_t == first_t.index_in_neighbour[non_axis_idx_in_first_t]
      nxt == next_t_idx_in_cur_t(cur_t, (prev_t_idx_in_cur_t + 1) % 4,
                                 gen_idx_in_d, axis_idx_in_d)
  IN IF ~has_grid_vertex(d, first_t_idx) \/ ~has_grid_vertex(d, cur_t_idx)
       THEN [s |-> [s1 EXCEPT !.status = "out_of_bounds"], face_vertices |-> <<>>,
             fan |-> <<first_t_idx, cur_t_idx>>]
       ELSE voronoi_loop_around_axis(d, vv, gen_idx_in_d, axis_idx_in_d,
              [s |-> voronoi_push([s1 EXCEPT !.read = @ \cup {first_t_idx}],
                                  cur_t_idx, cur_t.vertices[nxt], nxt),
               face_vertices |-> <<vv[first_t_idx - 4]>>,
               fan |-> <<first_t_idx, cur_t_idx>>,
               first_t_idx |-> first_t_idx,
               cur_t_idx |-> cur_t_idx,
               next_t_idx_in_cur_t |-> nxt,
               next_t_idx |-> cur_t.neighbours[nxt]])

\* one round of the loop over the queue: the next triple is popped, the
\* tetrahedra around its axis are visited and the face is stored
voronoi_sweep_edge(d, vv, gen_idx_in_d, s) ==
  LET info == s.q[s.head + 1]
      r == voronoi_rotate(d, vv, gen_idx_in_d, info,
                          [s EXCEPT !.nface = @ + 1, !.head = @ + 1])
  IN IF r.s.status # "ok" THEN [r.s EXCEPT !.fans = Append(@, r.fan)]
     ELSE [r.s EXCEPT !.v = voronoi_store_face(d, @, gen_idx_in_d, info[2],
                                               r.face_vertices),
                      !.fans = Append(@, r.fan)]

RECURSIVE voronoi_sweep_queue(_, _, _, _)
voronoi_sweep_queue(d, vv, gen_idx_in_d, s) ==
  IF s.head = Len(s.q) \/ s.status # "ok" THEN s
  ELSE voronoi_sweep_queue(d, vv, gen_idx_in_d,
                           voronoi_sweep_edge(d, vv, gen_idx_in_d, s))

\* the flags once the round has cleared the flag of the generator and the
\* flag of every vertex in neighbour_info_q.values; a sweep that left the
\* arrays does not get there
voronoi_reset_flags(s, gen_idx_in_d) ==
  IF s.status # "ok" THEN s.flags
  ELSE s.flags \ ({gen_idx_in_d} \cup {s.q[i][2] : i \in 1..Len(s.q)})

\* voronoi_sweep that does not set the flag of the first vertex it pushes
voronoi_sweep_first_unflagged(d, vv, gen_idx_in_d, w) ==
  LET t_idx == d.vertex_tetrahedron_links[gen_idx_in_d]
      other_v_idx_in_t == (d.vertex_tetrahedron_index[gen_idx_in_d] + 1) % 4
      other_v_idx_in_d == d.tetrahedra[t_idx].vertices[other_v_idx_in_t]
      s == voronoi_sweep_queue(d, vv, gen_idx_in_d,
             [q |-> <<<<t_idx, other_v_idx_in_d, other_v_idx_in_t>>>>,
              head |-> 0,
              flags |-> w.flags \cup {gen_idx_in_d},
              nface |-> 0,
              v |-> w.v,
              fans |-> <<>>,
              read |-> {},
              status |-> "ok"])
  IN [v |-> [s.v EXCEPT !.cells[gen_idx_in_d - d.vertex_start] = [nface |-> s.nface]],
      swept |-> Append(w.swept, SubSeq(s.q, 1, s.head)),
      started |-> Append(w.started, w.flags),
      fans |-> Append(w.fans, s.fans),
      read |-> w.read \cup s.read,
      flags |-> voronoi_reset_flags(s, gen_idx_in_d),
      status |-> s.status]

\* One round of the loop over the generators.  w holds the grid, the triples
\* popped by the sweeps done so far, the array neighbour_flags (the vertices
\* whose flag is set), the flags each sweep started with, the fans and the
\* reads of the sweeps, and the status.
voronoi_sweep(d, vv, gen_idx_in_d, w) ==
  LET t_idx == d.vertex_tetrahedron_links[gen_idx_in_d]
      other_v_idx_in_t == (d.vertex_tetrahedron_index[gen_idx_in_d] + 1) % 4
      other_v_idx_in_d == d.tetrahedra[t_idx].vertices[other_v_idx_in_t]
      s == voronoi_sweep_queue(d, vv, gen_idx_in_d,
             [q |-> <<<<t_idx, other_v_idx_in_d, other_v_idx_in_t>>>>,
              head |-> 0,
              flags |-> w.flags \cup {gen_idx_in_d, other_v_idx_in_d},
              nface |-> 0,
              v |-> w.v,
              fans |-> <<>>,
              read |-> {},
              status |-> "ok"])
  IN [v |-> [s.v EXCEPT !.cells[gen_idx_in_d - d.vertex_start] = [nface |-> s.nface]],
      swept |-> Append(w.swept, SubSeq(s.q, 1, s.head)),
      started |-> Append(w.started, w.flags),
      fans |-> Append(w.fans, s.fans),
      read |-> w.read \cup s.read,
      flags |-> voronoi_reset_flags(s, gen_idx_in_d),
      status |-> s.status]

\* the loop over the generators, from gen_idx_in_d on
RECURSIVE voronoi_sweeps(_, _, _, _)
voronoi_sweeps(d, vv, gen_idx_in_d, w) ==
  IF gen_idx_in_d >= number_of_cells(d) \/ w.status # "ok" THEN w
  ELSE voronoi_sweeps(d, vv, gen_idx_in_d + 1, voronoi_sweep(d, vv, gen_idx_in_d, w))

\* voronoi_init that leaves last_tetrahedron on the tetrahedron the last
\* sweep started from
voronoi_init_moves_last_tetrahedron(d) ==
  LET w0 == [v |-> voronoi_allocated(d), swept |-> <<>>, started |-> <<>>,
             fans |-> <<>>, read |-> {}, flags |-> {}, status |-> "ok"]
      w == IF voronoi_vertices_error(d) THEN [w0 EXCEPT !.status = "error"]
           ELSE voronoi_sweeps(d, voronoi_vertices(d), 0, w0)
  IN [d |-> [d EXCEPT !.last_tetrahedron =
                        d.vertex_tetrahedron_links[number_of_cells(d) - 1]],
      vor |-> [w EXCEPT !.status = IF @ = "ok" THEN "done" ELSE @]]

\* voronoi_init(v, d): the tessellation and the grid when it returns; the
\* status is "error" when voronoi_error stops the program, "out_of_bounds"
\* when a sweep leaves the arrays and "done" otherwise
voronoi_init(d) ==
  LET w0 == [v |-> voronoi_allocated(d), swept |-> <<>>, started |-> <<>>,
             fans |-> <<>>, read |-> {}, flags |-> {}, status |-> "ok"]
      w == IF voronoi_vertices_error(d) THEN [w0 EXCEPT !.status = "error"]
           ELSE voronoi_sweeps(d, voronoi_vertices(d), 0, w0)
  IN [d |-> d,
      vor |-> [w EXCEPT !.status = IF @ = "ok" THEN "done" ELSE @]]

-----------------------------------------------------------------------------
(* delaunay_get_search_radius.  The radius returned is twice the largest    *)
(* value delaunay_get_radius gives for the tetrahedra handed to it; the     *)
(* number is not carried, the tetrahedra are: measured holds, for every     *)
(* axis popped, the tetrahedra measured while rotating around it.  status   *)
(* leaves "ok" when the rotation reads outside the array of tetrahedra or   *)
(* does not come back within as many rounds as there are tetrahedra.        *)

\* (t, x, i) is pushed on the queue unless the flag of x is set
get_radius_push(s, t, x, i) ==
  IF s.flags[x] # 0 THEN s
  ELSE [s EXCEPT !.q = Append(@, <<t, x, i>>), !.flags[x] = 1]

\* the loop around the axis: cur_t_idx is measured, its next non axis vertex
\* is pushed and the rotation moves on until it is back in first_t_idx
RECURSIVE get_radius_loop_around_axis(_, _, _, _, _, _, _, _)
get_radius_loop_around_axis(d, gen_idx_in_d, axis_idx_in_d, first_t_idx, cur_t_idx, prev_t_idx_in_cur_t, s, fuel) ==
  IF cur_t_idx = first_t_idx THEN s
  ELSE IF cur_t_idx < 4 \/ cur_t_idx >= d.tetrahedron_index \/ fuel = 0
    THEN [s EXCEPT !.status = "out_of_bounds"]
  ELSE LET prev_t == d.tetrahedra[cur_t_idx]
           non_axis_idx_in_prev_t ==
             next_t_idx_in_cur_t(prev_t, (prev_t_idx_in_cur_t + 1) % 4,
                                 gen_idx_in_d, axis_idx_in_d)
           s1 == [s EXCEPT !.measured[Len(s.measured)] = Append(@, cur_t_idx)]
       IN get_radius_loop_around_axis(
            d, gen_idx_in_d, axis_idx_in_d, first_t_idx,
            prev_t.neighbours[non_axis_idx_in_prev_t],
            prev_t.index_in_neighbour[non_axis_idx_in_prev_t],
            get_radius_push(s1, cur_t_idx,
                            prev_t.vertices[non_axis_idx_in_prev_t],
                            non_axis_idx_in_prev_t),
            fuel - 1)

\* get_radius_edge that takes the vertex after the axis for the first non
\* axis vertex even when it is the generator
get_radius_edge_generator_not_skipped(d, gen_idx_in_d, s) ==
  LET info == s.q[s.head + 1]
      prev_t_idx == info[1]
      axis_idx_in_d == info[2]
      prev_t == d.tetrahedra[prev_t_idx]
      non_axis_idx_in_prev_t == (info[3] + 1) % 4
      s1 == [s EXCEPT !.head = @ + 1,
                      !.measured = Append(@, <<prev_t_idx>>)]
  IN get_radius_loop_around_axis(
       d, gen_idx_in_d, axis_idx_in_d, prev_t_idx,
       prev_t.neighbours[non_axis_idx_in_prev_t],
       prev_t.index_in_neighbour[non_axis_idx_in_prev_t],
       get_radius_push(s1, prev_t_idx, prev_t.vertices[non_axis_idx_in_prev_t],
                       non_axis_idx_in_prev_t),
       d.tetrahedron_index)

\* one round of the loop over the queue: the next triple is popped and the
\* tetrahedra around its axis are measured
get_radius_edge(d, gen_idx_in_d, s) ==
  LET info == s.q[s.head + 1]
      prev_t_idx == info[1]
      axis_idx_in_d == info[2]
      prev_t == d.tetrahedra[prev_t_idx]
      after_axis == (info[3] + 1) % 4
      non_axis_idx_in_prev_t ==
        IF prev_t.vertices[after_axis] = gen_idx_in_d
          THEN (after_axis + 1) % 4 ELSE after_axis
      s1 == [s EXCEPT !.head = @ + 1,
                      !.measured = Append(@, <<prev_t_idx>>)]
  IN get_radius_loop_around_axis(
       d, gen_idx_in_d, axis_idx_in_d, prev_t_idx,
       prev_t.neighbours[non_axis_idx_in_prev_t],
       prev_t.index_in_neighbour[non_axis_idx_in_prev_t],
       get_radius_push(s1, prev_t_idx, prev_t.vertices[non_axis_idx_in_prev_t],
                       non_axis_idx_in_prev_t),
       d.tetrahedron_index)

RECURSIVE get_radius_queue(_, _, _)
get_radius_queue(d, gen_idx_in_d, s) ==
  IF s.head = Len(s.q) \/ s.status # "ok" THEN s
  ELSE get_radius_queue(d, gen_idx_in_d, get_radius_edge(d, gen_idx_in_d, s))

\* the flags once the flag of the generator and the flag of every vertex in
\* get_radius_neighbour_info_queue.values are cleared
get_radius_reset_flags(s, gen_idx_in_d) ==
  [x \in DOMAIN s.flags |->
     IF x = gen_idx_in_d \/ \E i \in 1..Len(s.q) : s.q[i][2] = x
       THEN 0 ELSE s.flags[x]]

\* delaunay_get_search_radius that clears the flags of the vertices popped
\* and leaves the flag of the generator set
delaunay_get_search_radius_generator_left_flagged(d, gen_idx_in_d) ==
  LET t_idx == d.vertex_tetrahedron_links[gen_idx_in_d]
      other_v_idx_in_t == (d.vertex_tetrahedron_index[gen_idx_in_d] + 1) % 4
      other_v_idx_in_d == d.tetrahedra[t_idx].vertices[other_v_idx_in_t]
      s == get_radius_queue(d, gen_idx_in_d,
             [q |-> <<<<t_idx, other_v_idx_in_d, other_v_idx_in_t>>>>,
              head |-> 0,
              flags |-> [d.get_radius_neighbour_flags
                           EXCEPT ![gen_idx_in_d] = 1, ![other_v_idx_in_d] = 1],
              measured |-> <<>>,
              status |-> "ok"])
  IN [d |-> [d EXCEPT !.get_radius_neighbour_flags =
                        [get_radius_reset_flags(s, gen_idx_in_d)
                           EXCEPT ![gen_idx_in_d] = 1],
                      !.get_radius_neighbour_info_queue =
                        [values |-> s.q, start |-> s.head, end |-> Len(s.q)]],
      measured |-> s.measured,
      status |-> s.status]

\* delaunay_get_search_radius(d, gen_idx_in_d): the tessellation when it
\* returns and the tetrahedra measured
delaunay_get_search_radius(d, gen_idx_in_d) ==
  LET t_idx == d.vertex_tetrahedron_links[gen_idx_in_d]
      other_v_idx_in_t == (d.vertex_tetrahedron_index[gen_idx_in_d] + 1) % 4
      other_v_idx_in_d == d.tetrahedra[t_idx].vertices[other_v_idx_in_t]
      s == get_radius_queue(d, gen_idx_in_d,
             [q |-> <<<<t_idx, other_v_idx_in_d, other_v_idx_in_t>>>>,
              head |-> 0,
              flags |-> [d.get_radius_neighbour_flags
                           EXCEPT ![gen_idx_in_d] = 1, ![other_v_idx_in_d] = 1],
              measured |-> <<>>,
              status |-> "ok"])
  IN [d |-> [d EXCEPT !.get_radius_neighbour_flags =
                        get_radius_reset_flags(s, gen_idx_in_d),
                      !.get_radius_neighbour_info_queue =
                        [values |-> s.q, start |-> s.head, end |-> Len(s.q)]],
      measured |-> s.measured,
      status |-> s.status]

-----------------------------------------------------------------------------
(* Actions *)

\* the case delaunay_check_tetrahedron is about to find for the next
\* tetrahedron of the queue ("none" outside the loop of
\* delaunay_check_tetrahedra or when the queue holds no active tetrahedron)
PendingCase3D ==
  IF dim = 3 /\ frame.pc = "check"
       /\ skip_inactive(d3, d3.tetrahedra_to_check) # <<>>
    THEN check_tetrahedron_case(
           d3, Last(skip_inactive(d3, d3.tetrahedra_to_check)), frame.v).kind
    ELSE "none"

\* the edge flip is about to be applied to the next triangle of the queue
PendingFlip2D ==
  /\ dim = 2
  /\ frame.pc = "check"
  /\ d2.queue # <<>>
  /\ d2.triangles[Last(d2.queue)].neighbours[2] > 2
  /\ check_triangle_test(d2, Last(d2.queue)) > 0

\* the split delaunay_add_vertex is about to apply, 2D
SplitCase2D == IF frame.flag = 1 THEN "1to3" ELSE "2to4"

\* the insertion flip delaunay_add_vertex is about to apply, 3D
SplitCase3D ==
  IF Len(d3.tetrahedra_containing_vertex) = 1 THEN "1to4"
  ELSE IF Len(d3.tetrahedra_containing_vertex) = 2 THEN "2to6"
  ELSE "nto2n"

\* the number of calls of delaunay_new_tetrahedron the next step of the call
\* in progress makes: 3 in the 1-to-4 flip, 4 in the 2-to-6 flip, n in the
\* n-to-2n flip, 1 in the 2-to-3 flip
NewTetrahedra3D ==
  IF dim # 3 THEN 0
  ELSE IF frame.pc = "split"
    THEN IF Len(d3.tetrahedra_containing_vertex) = 1 THEN 3
         ELSE IF Len(d3.tetrahedra_containing_vertex) = 2 THEN 4
         ELSE Len(d3.tetrahedra_containing_vertex)
  ELSE IF PendingCase3D = "2to3" THEN 1
  ELSE 0

\* the next step takes a slot from the free list
PendingReuse3D ==
  dim = 3 /\ NewTetrahedra3D > 0 /\ d3.free_tetrahedron_indices # <<>>

\* what the next step adds to the history on that account
ReuseCase3D == IF PendingReuse3D THEN {"reuse"} ELSE {}

\* the cases of delaunay_check_tetrahedron kept in the history
FlipCases3D == {"2to3", "4to4", "4to4_deferred", "3to2", "3to2_deferred"}

NoDelaunay == [unused |-> TRUE]

\* no predicate is called on a geometry object of its own
NoGeometry == [g |-> [unused |-> TRUE], pts |-> <<>>, fn |-> "none"]

\* no grid has been built
NoVoronoi == [v |-> [unused |-> TRUE], swept |-> <<>>, status |-> "none"]

\* the machine state m becomes the state of the 2D run
Becomes2D(m) == d2' = m.d /\ frame' = m.f

\* the machine state m becomes the state of the 3D run
Becomes3D(m) == d3' = m.d /\ frame' = m.f

Init ==
  /\ dim \in {2, 3}
  /\ d2 = IF dim = 2 THEN delaunay_init_2d(InitVertexSize, InitSimplexSize)
                     ELSE NoDelaunay
  /\ d3 = IF dim = 3 THEN delaunay_init_3d(InitVertexSize, InitSimplexSize)
                     ELSE NoDelaunay
  /\ frame = IdleFrame
  /\ cases = {}
  /\ rounds = 0
  /\ vor = NoVoronoi
  /\ geo = NoGeometry

CanInsert2D(p) ==
  /\ dim = 2
  /\ frame.pc = "idle"
  /\ vertex_accepted_2d(d2, p[1], p[2])
  /\ Cardinality(InsertedVertices2D(d2)) < MaxInsert
  /\ \A v \in InsertedVertices2D(d2) : UserPoint2D(d2, v) # p

\* delaunay_add_local_vertex(d, v, x, y) for the next free local index v,
\* before delaunay_consolidate
AddLocalVertex2D(p) ==
  /\ CanInsert2D(p)
  /\ d2.ghost_offset = 0
  /\ FreeLocal2D(d2) # {}
  /\ LET v == Min(FreeLocal2D(d2))
         m == add_vertex_begin_2d(delaunay_init_vertex_2d(d2, v, p[1], p[2]), v)
     IN d2' = m.d /\ frame' = m.f
  /\ cases' = {}
  /\ rounds' = 0
  /\ UNCHANGED <<dim, d3, vor, geo>>

\* delaunay_add_new_vertex(d, x, y), after delaunay_consolidate
AddNewVertex2D(p) ==
  /\ CanInsert2D(p)
  /\ d2.ghost_offset # 0
  /\ LET e == delaunay_new_vertex_2d(d2, p[1], p[2])
         m == add_vertex_begin_2d(e, d2.vertex_index)
     IN d2' = m.d /\ frame' = m.f
  /\ cases' = {}
  /\ rounds' = 0
  /\ UNCHANGED <<dim, d3, vor, geo>>

Consolidate2D ==
  /\ dim = 2
  /\ frame.pc = "idle"
  /\ d2.ghost_offset = 0
  /\ d2' = delaunay_consolidate_2d(d2)
  /\ UNCHANGED <<dim, d3, frame, cases, rounds, vor, geo>>

Locate2D ==
  /\ dim = 2
  /\ frame.pc = "locate"
  /\ rounds < MaxRounds
  /\ rounds' = rounds + 1
  /\ \E choice \in 0..1 :
       Becomes2D(add_vertex_locate_2d([d |-> d2, f |-> frame], choice))
  /\ UNCHANGED <<dim, d3, cases, vor, geo>>

Split2D ==
  /\ dim = 2
  /\ frame.pc = "split"
  /\ rounds < MaxRounds
  /\ rounds' = rounds + 1
  /\ Becomes2D(add_vertex_split_2d([d |-> d2, f |-> frame]))
  /\ cases' = cases \cup {SplitCase2D}
  /\ UNCHANGED <<dim, d3, vor, geo>>

CheckTriangles2D ==
  /\ dim = 2
  /\ frame.pc = "check"
  /\ rounds < MaxRounds
  /\ rounds' = rounds + 1
  /\ Becomes2D(delaunay_check_triangles_step([d |-> d2, f |-> frame]))
  /\ cases' = IF PendingFlip2D THEN cases \cup {"flip"} ELSE cases
  /\ UNCHANGED <<dim, d3, vor, geo>>

CanInsert3D(p) ==
  /\ dim = 3
  /\ frame.pc = "idle"
  /\ vertex_accepted_3d(d3, p[1], p[2], p[3])
  /\ Cardinality(InsertedVertices3D(d3)) < MaxInsert
  /\ \A v \in InsertedVertices3D(d3) : UserPoint3D(d3, v) # p

\* delaunay_add_local_vertex(d, v, x, y, z) for the next free local index v,
\* before delaunay_consolidate
AddLocalVertex3D(p) ==
  /\ CanInsert3D(p)
  /\ d3.ghost_offset = 0
  /\ FreeLocal3D(d3) # {}
  /\ LET v == Min(FreeLocal3D(d3))
         m == add_vertex_begin_3d(
                delaunay_init_vertex_3d(d3, v, p[1], p[2], p[3]), v)
     IN d3' = m.d /\ frame' = m.f
  /\ cases' = {}
  /\ rounds' = 0
  /\ UNCHANGED <<dim, d2, vor, geo>>

\* delaunay_add_new_vertex(d, x, y, z), after delaunay_consolidate
AddNewVertex3D(p) ==
  /\ CanInsert3D(p)
  /\ d3.ghost_offset # 0
  /\ LET e == delaunay_new_vertex_3d(d3, p[1], p[2], p[3])
         m == add_vertex_begin_3d(e, d3.vertex_index)
     IN d3' = m.d /\ frame' = m.f
  /\ cases' = {}
  /\ rounds' = 0
  /\ UNCHANGED <<dim, d2, vor, geo>>

Consolidate3D ==
  /\ dim = 3
  /\ frame.pc = "idle"
  /\ d3.ghost_offset = 0
  /\ d3' = delaunay_consolidate_3d(d3)
  /\ UNCHANGED <<dim, d2, frame, cases, rounds, vor, geo>>

Locate3D ==
  /\ dim = 3
  /\ frame.pc = "locate"
  /\ rounds < MaxRounds
  /\ rounds' = rounds + 1
  /\ Becomes3D(add_vertex_locate_3d([d |-> d3, f |-> frame]))
  /\ UNCHANGED <<dim, d2, cases, vor, geo>>

Split3D ==
  /\ dim = 3
  /\ frame.pc = "split"
  /\ rounds < MaxRounds
  /\ rounds' = rounds + 1
  /\ Becomes3D(add_vertex_split_3d([d |-> d3, f |-> frame]))
  /\ cases' = cases \cup {SplitCase3D} \cup ReuseCase3D
  /\ UNCHANGED <<dim, d2, vor, geo>>

CheckTetrahedra3D ==
  /\ dim = 3
  /\ frame.pc = "check"
  /\ rounds < MaxRounds
  /\ rounds' = rounds + 1
  /\ Becomes3D(delaunay_check_tetrahedra_step([d |-> d3, f |-> frame]))
  /\ cases' = IF PendingCase3D \in FlipCases3D
                THEN cases \cup {PendingCase3D} \cup ReuseCase3D ELSE cases
  /\ UNCHANGED <<dim, d2, vor, geo>>

Next ==
  \/ \E p \in Points2D : AddLocalVertex2D(p)
  \/ \E p \in Points2D : AddNewVertex2D(p)
  \/ Consolidate2D
  \/ Locate2D
  \/ Split2D
  \/ CheckTriangles2D
  \/ \E p \in Points3D : AddLocalVertex3D(p)
  \/ \E p \in Points3D : AddNewVertex3D(p)
  \/ Consolidate3D
  \/ Locate3D
  \/ Split3D
  \/ CheckTetrahedra3D

Spec == Init /\ [][Next]_vars

\* a call of delaunay_add_vertex is in progress
InCall == frame.pc \in {"locate", "split", "check"}

\* the call in progress takes a step
Tick == InCall /\ rounds < MaxRounds /\ rounds' = rounds + 1

\* The steps inside a call of delaunay_add_vertex are steps of one sequential
\* function: once the call is entered it keeps taking steps.  The caller is
\* not obliged to insert anything.
FairSpec == Spec /\ WF_rounds(Tick)

(* The same machine fed with every kind of point delaunay_init_vertex       *)
(* accepts: points of the hydro space, points of the enclosing box that lie *)
(* on the far side of the super-simplex and points on its far face; a point *)
(* outside the box is offered too and turned down by the guard              *)
(* vertex_accepted of the insertions.                                       *)

OfferedPoints2D ==
  {<<0, 0>>, <<1, 1>>, <<0, HsSide>>,
   <<2 * HsSide, 2 * HsSide>>, <<5 * HsSide, 5 * HsSide>>,
   <<4 * HsSide, 3 * HsSide>>, <<5 * HsSide + 1, 0>>}

OfferedPoints3D ==
  {<<0, 0, 0>>, <<1, 1, 1>>, <<0, HsSide, 1>>,
   <<2 * HsSide, 2 * HsSide, 2 * HsSide>>,
   <<8 * HsSide, 8 * HsSide, 8 * HsSide>>,
   <<8 * HsSide, 0, 4 * HsSide>>, <<8 * HsSide + 1, 0, 0>>}

NextAccepted ==
  \/ \E p \in OfferedPoints2D : AddLocalVertex2D(p)
  \/ \E p \in OfferedPoints2D : AddNewVertex2D(p)
  \/ Consolidate2D
  \/ Locate2D
  \/ Split2D
  \/ CheckTriangles2D
  \/ \E p \in OfferedPoints3D : AddLocalVertex3D(p)
  \/ \E p \in OfferedPoints3D : AddNewVertex3D(p)
  \/ Consolidate3D
  \/ Locate3D
  \/ Split3D
  \/ CheckTetrahedra3D

SpecAccepted == Init /\ [][NextAccepted]_vars

(* The same machine built with every initial capacity up to the bounds,    *)
(* none included.  An index handed out at or beyond the capacity of its     *)
(* array is followed by a write outside the allocation: such a run is not   *)
(* followed further.                                                        *)

InitCapacity ==
  /\ dim \in {2, 3}
  /\ \E vertex_size \in 0..InitVertexSize, simplex_size \in 0..InitSimplexSize :
       /\ d2 = IF dim = 2 THEN delaunay_init_2d(vertex_size, simplex_size)
                          ELSE NoDelaunay
       /\ d3 = IF dim = 3 THEN delaunay_init_3d(vertex_size, simplex_size)
                          ELSE NoDelaunay
  /\ frame = IdleFrame
  /\ cases = {}
  /\ rounds = 0
  /\ vor = NoVoronoi
  /\ geo = NoGeometry

\* the tessellation of the run
Tessellation == IF dim = 2 THEN d2 ELSE d3

WithinCapacity == Tessellation.overrun = {}

NextCapacity == WithinCapacity /\ Next

SpecCapacity == InitCapacity /\ [][NextCapacity]_vars

(* delaunay_test_point_inside_triangle on its own: the first triangle of a  *)
(* new tessellation with its three vertices and the tested vertex moved to  *)
(* any points of a small grid, so that every pattern of signs occurs, those *)
(* of a clockwise or flat triangle included.                                *)

TestGrid == (0..MaxGrid) \X (0..MaxGrid)

InitInside ==
  /\ dim = 2
  /\ \E a, b, c, e \in TestGrid :
       LET d == delaunay_init_2d(InitVertexSize, InitSimplexSize)
           t == d.last_triangle
           T == d.triangles[t]
       IN d2 = [d EXCEPT !.integer_vertices[0] = a,
                         !.integer_vertices[T.vertices[0]] = b,
                         !.integer_vertices[T.vertices[1]] = c,
                         !.integer_vertices[T.vertices[2]] = e]
  /\ d3 = NoDelaunay
  /\ frame = [IdleFrame EXCEPT !.pc = "test", !.v = 0, !.t0 = d2.last_triangle]
  /\ cases = {}
  /\ rounds = 0
  /\ vor = NoVoronoi
  /\ geo = NoGeometry

\* flag = delaunay_test_point_inside_triangle(d, v, t0, &t1, &ngb_index)
TestPointInsideTriangle ==
  /\ frame.pc = "test"
  /\ \E choice \in 0..1 :
       LET r == delaunay_test_point_inside_triangle(d2, frame.v, frame.t0,
                                                    frame.ngb_index, choice)
       IN frame' = [frame EXCEPT !.pc = IF r.flag < 0 THEN "abort" ELSE "tested",
                                 !.flag = r.flag, !.t1 = r.t_new,
                                 !.ngb_index = r.ngb_index]
  /\ UNCHANGED <<dim, d2, d3, cases, rounds, vor, geo>>

NextInside == TestPointInsideTriangle

SpecInside == InitInside /\ [][NextInside]_vars

(* The 2D machine fed with points from all over the inside of the          *)
(* super-triangle: points of the hydro space, and points near each corner  *)
(* and each edge of the super-triangle, as ghosts of a neighbouring cell   *)
(* are.                                                                     *)

WalkPoints2D ==
  {<<0, 0>>, <<1, 1>>, <<HsSide, HsSide>>,
   <<1 - HsSide, 1 - HsSide>>, <<5 * HsSide - 2, 1 - HsSide>>,
   <<1 - HsSide, 5 * HsSide - 2>>, <<2 * HsSide - 1, 2 * HsSide - 1>>,
   <<2 * HsSide, 1 - HsSide>>}

InitWalk == Init /\ dim = 2

NextWalk ==
  \/ \E p \in WalkPoints2D : AddLocalVertex2D(p)
  \/ \E p \in WalkPoints2D : AddNewVertex2D(p)
  \/ Consolidate2D
  \/ Locate2D
  \/ Split2D
  \/ CheckTriangles2D

SpecWalk == InitWalk /\ [][NextWalk]_vars

(* The 2D machine with the caller asking for the search radii at any time  *)
(* between two insertions, once every local vertex has been inserted: the  *)
(* radius and the back link of a local vertex are written by its insertion *)
(* only, and delaunay_update_search_radii reads them for every local       *)
(* vertex.                                                                  *)

\* the radii the caller asks with, in grid units
SearchRadii == {HsSide, 2 * HsSide, 4 * HsSide, 8 * HsSide}

InitRadii == Init /\ dim = 2

UpdateSearchRadii2D(r) ==
  /\ dim = 2
  /\ frame.pc = "idle"
  /\ FreeLocal2D(d2) = {}
  /\ d2' = delaunay_update_search_radii(d2, r).d
  /\ UNCHANGED <<dim, d3, frame, cases, rounds, vor, geo>>

NextRadii ==
  \/ \E p \in Points2D : AddLocalVertex2D(p)
  \/ \E p \in Points2D : AddNewVertex2D(p)
  \/ Consolidate2D
  \/ Locate2D
  \/ Split2D
  \/ CheckTriangles2D
  \/ \E r \in SearchRadii : UpdateSearchRadii2D(r)

SpecRadii == InitRadii /\ [][NextRadii]_vars

(* The same machine fed, besides the points of Points2D and Points3D, with  *)
(* the position of a vertex that is in the tessellation already: an        *)
(* inserted vertex or a vertex of the super-simplex.                       *)

\* the indices a vertex of the runs can have
VertexIndices == 0..(InitVertexSize + 4 + MaxInsert)

\* delaunay_add_local_vertex(d, v, x, y) at the position of vertex u
AddLocalDuplicate2D(u) ==
  /\ dim = 2
  /\ frame.pc = "idle"
  /\ d2.ghost_offset = 0
  /\ FreeLocal2D(d2) # {}
  /\ u \in InsertedVertices2D(d2) \cup SuperVertices2D(d2)
  /\ LET v == Min(FreeLocal2D(d2))
         m == add_vertex_begin_2d(
                delaunay_init_vertex_2d(d2, v, UserPoint2D(d2, u)[1],
                                        UserPoint2D(d2, u)[2]), v)
     IN d2' = m.d /\ frame' = m.f
  /\ cases' = {"duplicate"}
  /\ rounds' = 0
  /\ UNCHANGED <<dim, d3, vor, geo>>

\* delaunay_add_new_vertex(d, x, y) at the position of vertex u
AddNewDuplicate2D(u) ==
  /\ dim = 2
  /\ frame.pc = "idle"
  /\ d2.ghost_offset # 0
  /\ u \in InsertedVertices2D(d2) \cup SuperVertices2D(d2)
  /\ LET e == delaunay_new_vertex_2d(d2, UserPoint2D(d2, u)[1],
                                     UserPoint2D(d2, u)[2])
         m == add_vertex_begin_2d(e, d2.vertex_index)
     IN d2' = m.d /\ frame' = m.f
  /\ cases' = {"duplicate"}
  /\ rounds' = 0
  /\ UNCHANGED <<dim, d3, vor, geo>>

\* delaunay_add_local_vertex(d, v, x, y, z) at the position of vertex u
AddLocalDuplicate3D(u) ==
  /\ dim = 3
  /\ frame.pc = "idle"
  /\ d3.ghost_offset = 0
  /\ FreeLocal3D(d3) # {}
  /\ u \in InsertedVertices3D(d3) \cup SuperVertices3D(d3)
  /\ LET v == Min(FreeLocal3D(d3))
         m == add_vertex_begin_3d(
                delaunay_init_vertex_3d(d3, v, UserPoint3D(d3, u)[1],
                                        UserPoint3D(d3, u)[2],
                                        UserPoint3D(d3, u)[3]), v)
     IN d3' = m.d /\ frame' = m.f
  /\ cases' = {"duplicate"}
  /\ rounds' = 0
  /\ UNCHANGED <<dim, d2, vor, geo>>

\* delaunay_add_new_vertex(d, x, y, z) at the position of vertex u
AddNewDuplicate3D(u) ==
  /\ dim = 3
  /\ frame.pc = "idle"
  /\ d3.ghost_offset # 0
  /\ u \in InsertedVertices3D(d3) \cup SuperVertices3D(d3)
  /\ LET e == delaunay_new_vertex_3d(d3, UserPoint3D(d3, u)[1],
                                     UserPoint3D(d3, u)[2],
                                     UserPoint3D(d3, u)[3])
         m == add_vertex_begin_3d(e, d3.vertex_index)
     IN d3' = m.d /\ frame' = m.f
  /\ cases' = {"duplicate"}
  /\ rounds' = 0
  /\ UNCHANGED <<dim, d2, vor, geo>>

NextDuplicate ==
  \/ \E p \in Points2D : AddLocalVertex2D(p)
  \/ \E p \in Points2D : AddNewVertex2D(p)
  \/ \E u \in VertexIndices : AddLocalDuplicate2D(u)
  \/ \E u \in VertexIndices : AddNewDuplicate2D(u)
  \/ Consolidate2D
  \/ Locate2D
  \/ Split2D
  \/ CheckTriangles2D
  \/ \E p \in Points3D : AddLocalVertex3D(p)
  \/ \E p \in Points3D : AddNewVertex3D(p)
  \/ \E u \in VertexIndices : AddLocalDuplicate3D(u)
  \/ \E u \in VertexIndices : AddNewDuplicate3D(u)
  \/ Consolidate3D
  \/ Locate3D
  \/ Split3D
  \/ CheckTetrahedra3D

SpecDuplicate == Init /\ [][NextDuplicate]_vars

(* The exact tests of geometry3d.h called on a geometry object of their    *)
(* own.  The caller holds five points of the integer grid, calls          *)
(* geometry_orient_exact on the first four or geometry_in_sphere_exact on  *)
(* the five, and may take the points in the reverse order for the next     *)
(* call; the object keeps what the last calls left in it.                  *)

GridPoints ==
  {<<0, 0, 0>>, <<1, 0, 0>>, <<0, 1, 0>>, <<0, 0, 1>>, <<2, 0, 0>>, <<1, 1, 1>>}

InitGeometry ==
  /\ dim = 3
  /\ d2 = NoDelaunay
  /\ d3 = NoDelaunay
  /\ frame = IdleFrame
  /\ cases = {}
  /\ rounds = 0
  /\ vor = NoVoronoi
  /\ \E a, b, c, e, f \in GridPoints :
       geo = [g |-> geometry_init, pts |-> <<a, b, c, e, f>>, fn |-> "none",
              args |-> <<>>, sign |-> 0]

OrientExact ==
  /\ geo.fn # "none" \/ geo.g = geometry_init
  /\ LET p == geo.pts
         r == geometry_orient_exact_call(
                geo.g, p[1][1], p[1][2], p[1][3], p[2][1], p[2][2], p[2][3],
                p[3][1], p[3][2], p[3][3], p[4][1], p[4][2], p[4][3])
     IN geo' = [geo EXCEPT !.g = r.g, !.fn = "orient", !.args = SubSeq(p, 1, 4),
                           !.sign = r.sign]
  /\ UNCHANGED <<dim, d2, d3, frame, cases, rounds, vor>>

InSphereExact ==
  /\ geo.fn # "none" \/ geo.g = geometry_init
  /\ LET p == geo.pts
         r == geometry_in_sphere_exact_call(
                geo.g, p[1][1], p[1][2], p[1][3], p[2][1], p[2][2], p[2][3],
                p[3][1], p[3][2], p[3][3], p[4][1], p[4][2], p[4][3],
                p[5][1], p[5][2], p[5][3])
     IN geo' = [geo EXCEPT !.g = r.g, !.fn = "in_sphere", !.args = p,
                           !.sign = r.sign]
  /\ UNCHANGED <<dim, d2, d3, frame, cases, rounds, vor>>

\* the caller takes the points in the reverse order
ReversePoints ==
  /\ geo.fn # "none"
  /\ geo' = [geo EXCEPT !.pts = <<@[5], @[4], @[3], @[2], @[1]>>]
  /\ UNCHANGED <<dim, d2, d3, frame, cases, rounds, vor>>

NextGeometry ==
  \/ OrientExact
  \/ InSphereExact
  \/ ReversePoints

SpecGeometry == InitGeometry /\ [][NextGeometry]_vars

(* The 3D machine followed by the extractor.  The caller inserts           *)
(* VoronoiVertexSize generators of the hydro space as local vertices,      *)
(* consolidates, adds ghosts around the hydro space (the ghosts come in    *)
(* the order of VoronoiGhosts, any of them may be left out) and calls      *)
(* voronoi_init once.                                                      *)

VoronoiGenerators == {<<1, 1, 1>>, <<1, 1, 2>>, <<2, 1, 1>>}

VoronoiGhosts ==
  <<<<1, 1, -1>>, <<1, 1, 4>>, <<4, 1, 1>>, <<-1, 3, 2>>, <<-1, -1, 1>>>>

GridBuilt == vor.status # "none"

InitVoronoi ==
  /\ dim = 3
  /\ d2 = NoDelaunay
  /\ d3 = delaunay_init_3d(VoronoiVertexSize, InitSimplexSize)
  /\ frame = IdleFrame
  /\ cases = {}
  /\ rounds = 0
  /\ vor = NoVoronoi
  /\ geo = NoGeometry

\* delaunay_add_local_vertex(d, v, x, y, z) for a generator and the next free
\* local index v
AddGenerator3D(p) ==
  /\ dim = 3
  /\ frame.pc = "idle"
  /\ ~GridBuilt
  /\ d3.ghost_offset = 0
  /\ FreeLocal3D(d3) # {}
  /\ vertex_accepted_3d(d3, p[1], p[2], p[3])
  /\ \A v \in InsertedVertices3D(d3) : UserPoint3D(d3, v) # p
  /\ LET v == Min(FreeLocal3D(d3))
         m == add_vertex_begin_3d(
                delaunay_init_vertex_3d(d3, v, p[1], p[2], p[3]), v)
     IN d3' = m.d /\ frame' = m.f
  /\ cases' = {}
  /\ rounds' = 0
  /\ UNCHANGED <<dim, d2, vor, geo>>

\* delaunay_consolidate(d) once every local vertex is in
ConsolidateGenerators3D == FreeLocal3D(d3) = {} /\ Consolidate3D

\* delaunay_add_new_vertex(d, x, y, z) for ghost k of the stream; the ghosts
\* from k on have not been added
AddGhost3D(k) ==
  /\ dim = 3
  /\ frame.pc = "idle"
  /\ ~GridBuilt
  /\ d3.ghost_offset # 0
  /\ vertex_accepted_3d(d3, VoronoiGhosts[k][1], VoronoiGhosts[k][2], VoronoiGhosts[k][3])
  /\ \A v \in InsertedVertices3D(d3) : \A j \in k..Len(VoronoiGhosts) :
       UserPoint3D(d3, v) # VoronoiGhosts[j]
  /\ LET e == delaunay_new_vertex_3d(d3, VoronoiGhosts[k][1], VoronoiGhosts[k][2], VoronoiGhosts[k][3])
         m == add_vertex_begin_3d(e, d3.vertex_index)
     IN d3' = m.d /\ frame' = m.f
  /\ cases' = {}
  /\ rounds' = 0
  /\ UNCHANGED <<dim, d2, vor, geo>>

\* voronoi_init(v, d) on the consolidated tessellation
VoronoiInit ==
  /\ dim = 3
  /\ frame.pc = "idle"
  /\ ~GridBuilt
  /\ d3.ghost_offset # 0
  /\ FreeLocal3D(d3) = {}
  /\ LET m == voronoi_init(d3)
     IN d3' = m.d /\ vor' = m.vor
  /\ UNCHANGED <<dim, d2, frame, cases, rounds, geo>>

NextVoronoi ==
  \/ \E p \in VoronoiGenerators : AddGenerator3D(p)
  \/ ConsolidateGenerators3D
  \/ \E k \in 1..Len(VoronoiGhosts) : AddGhost3D(k)
  \/ Locate3D
  \/ Split3D
  \/ CheckTetrahedra3D
  \/ VoronoiInit

SpecVoronoi == InitVoronoi /\ [][NextVoronoi]_vars

(* The same runs, in which the search radius of an inserted vertex may be  *)
(* asked for between two insertions, once every local vertex is             *)
(* initialised.                                                            *)

\* delaunay_get_search_radius(d, gen_idx_in_d)
GetSearchRadius3D(gen_idx_in_d) ==
  /\ dim = 3
  /\ frame.pc = "idle"
  /\ FreeLocal3D(d3) = {}
  /\ gen_idx_in_d \in InsertedVertices3D(d3)
  /\ LET r == delaunay_get_search_radius(d3, gen_idx_in_d)
     IN /\ d3' = r.d
        /\ frame' = IF r.status = "ok" THEN frame ELSE AbortFrame
  /\ UNCHANGED <<dim, d2, cases, rounds, vor, geo>>

\* a ghost on the segment between a generator and a ghost of the stream
GhostsOnEdges == {<<1, 1, 0>>}

NextRotation ==
  \/ \E p \in VoronoiGenerators : AddGenerator3D(p)
  \/ ConsolidateGenerators3D
  \/ \E k \in 1..Len(VoronoiGhosts) : AddGhost3D(k)
  \/ \E p \in GhostsOnEdges : ~GridBuilt /\ AddNewVertex3D(p)
  \/ Locate3D
  \/ Split3D
  \/ CheckTetrahedra3D
  \/ VoronoiInit
  \/ \E g \in 0..(VoronoiVertexSize + 4 + Len(VoronoiGhosts)) : GetSearchRadius3D(g)

SpecRotation == InitVoronoi /\ [][NextRotation]_vars

(* positive_permutation called as the flips call it: the caller holds a     *)
(* positively ordered tetrahedron on points of the integer grid and the     *)
(* indices 0..3 of its vertices in the order in which it means to hand them *)
(* to a new tetrahedron, asks positive_permutation about that order and,    *)
(* when the answer is no, exchanges the first two indices.                  *)

IndexOrders ==
  {p \in [1..4 -> 0..3] : \A i, j \in 1..4 : p[i] = p[j] => i = j}

InitPermutation ==
  /\ dim = 3
  /\ d2 = NoDelaunay
  /\ d3 = NoDelaunay
  /\ frame = IdleFrame
  /\ cases = {}
  /\ rounds = 0
  /\ vor = NoVoronoi
  /\ \E a, b, c, e \in GridPoints : \E p \in IndexOrders :
       LET T == [integer_vertices |-> [i \in 0..3 |-> <<a, b, c, e>>[i + 1]]]
       IN /\ orient_vertices(T, 0, 1, 2, 3) < 0
          /\ geo = [g |-> [unused |-> TRUE], pts |-> T, fn |-> "none",
                    order |-> p, positive |-> FALSE, swapped |-> FALSE]

PositivePermutation ==
  /\ geo.fn = "none"
  /\ geo' = [geo EXCEPT !.fn = "positive_permutation",
                        !.positive = positive_permutation(geo.order[1], geo.order[2],
                                                          geo.order[3], geo.order[4])]
  /\ UNCHANGED <<dim, d2, d3, frame, cases, rounds, vor>>

\* the caller exchanges the first two indices of an order that is not positive
SwapOrder ==
  /\ geo.fn = "positive_permutation"
  /\ ~geo.positive
  /\ ~geo.swapped
  /\ geo' = [geo EXCEPT !.fn = "none", !.swapped = TRUE,
                        !.order = <<@[2], @[1], @[3], @[4]>>]
  /\ UNCHANGED <<dim, d2, d3, frame, cases, rounds, vor>>

NextPermutation ==
  \/ PositivePermutation
  \/ SwapOrder

SpecPermutation == InitPermutation /\ [][NextPermutation]_vars

-----------------------------------------------------------------------------
(* The tessellation as the claims see it *)

\* the triangles that are not dummies (2D has no inactive triangles)
RealTriangles(d) == 3..(d.triangle_index - 1)

\* the tetrahedra that are active and not dummies
RealTetrahedra(d) ==
  {t \in 4..(d.tetrahedron_index - 1) : d.tetrahedra[t].active = 1}

Returned == frame.pc = "idle"

NeighbourSymmetry2D(d) ==
  \A t \in RealTriangles(d) : \A i \in 0..2 :
    LET b == d.triangles[t].neighbours[i]
        bi == d.triangles[t].index_in_neighbour[i]
    IN /\ b \in 0..(d.triangle_index - 1)
       /\ bi \in 0..2
       /\ d.triangles[b].neighbours[bi] = t
       /\ b > 2 => d.triangles[b].index_in_neighbour[bi] = i

NeighbourSymmetry3D(d) ==
  \A t \in RealTetrahedra(d) : \A i \in 0..3 :
    LET b == d.tetrahedra[t].neighbours[i]
        bi == d.tetrahedra[t].index_in_neighbour[i]
    IN /\ b \in 0..(d.tetrahedron_index - 1)
       /\ bi \in 0..3
       /\ d.tetrahedra[b].neighbours[bi] = t
       /\ b > 3 => d.tetrahedra[b].index_in_neighbour[bi] = i

\* in_sphere of tetrahedron t against the vertex of its neighbour i that is
\* opposite the shared face
OppositeInSphere3D(d, t, i) ==
  LET T == d.tetrahedra[t]
      w == d.tetrahedra[T.neighbours[i]].vertices[T.index_in_neighbour[i]]
  IN in_sphere_vertices(d, T.vertices[0], T.vertices[1], T.vertices[2],
                        T.vertices[3], w)

LocallyDelaunay3D(d) ==
  \A t \in RealTetrahedra(d) : \A i \in 0..3 :
    d.tetrahedra[t].neighbours[i] > 3 => OppositeInSphere3D(d, t, i) >= 0

\* in_sphere of triangle t against the vertex of its neighbour i that is
\* opposite the shared edge
OppositeInSphere2D(d, t, i) ==
  LET T == d.triangles[t]
      a == d.integer_vertices[T.vertices[0]]
      b == d.integer_vertices[T.vertices[1]]
      c == d.integer_vertices[T.vertices[2]]
      w == d.integer_vertices[
             d.triangles[T.neighbours[i]].vertices[T.index_in_neighbour[i]]]
  IN geometry2d_in_sphere_exact(a[1], a[2], b[1], b[2], c[1], c[2], w[1], w[2])

LocallyDelaunay2D(d) ==
  \A t \in RealTriangles(d) : \A i \in 0..2 :
    d.triangles[t].neighbours[i] > 2 => OppositeInSphere2D(d, t, i) <= 0

Orientation3D(d, t) ==
  LET T == d.tetrahedra[t]
  IN orient_vertices(d, T.vertices[0], T.vertices[1], T.vertices[2], T.vertices[3])

Orientation2D(d, t) ==
  LET T == d.triangles[t]
      a == d.integer_vertices[T.vertices[0]]
      b == d.integer_vertices[T.vertices[1]]
      c == d.integer_vertices[T.vertices[2]]
  IN geometry2d_orient_exact(a[1], a[2], b[1], b[2], c[1], c[2])

BackLinks2D(d) ==
  \A v \in InsertedVertices2D(d) \cup SuperVertices2D(d) :
    /\ d.vertex_triangles[v] \in RealTriangles(d)
    /\ d.vertex_triangle_index[v] \in 0..2
    /\ d.triangles[d.vertex_triangles[v]].vertices[d.vertex_triangle_index[v]] = v

BackLinks3D(d) ==
  \A v \in InsertedVertices3D(d) \cup SuperVertices3D(d) :
    /\ d.vertex_tetrahedron_links[v] \in RealTetrahedra(d)
    /\ d.vertex_tetrahedron_index[v] \in 0..3
    /\ d.tetrahedra[d.vertex_tetrahedron_links[v]]
         .vertices[d.vertex_tetrahedron_index[v]] = v

SeqRange(s) == {s[k] : k \in 1..Len(s)}

InactiveSlots3D(d) ==
  /\ \A t \in RealTetrahedra(d) : \A i \in 0..3 :
       d.tetrahedra[d.tetrahedra[t].neighbours[i]].active = 1
  /\ \A v \in InsertedVertices3D(d) \cup SuperVertices3D(d) :
       d.tetrahedra[d.vertex_tetrahedron_links[v]].active = 1
  /\ \A t \in 0..(d.tetrahedron_index - 1) :
       d.tetrahedra[t].active = 0 => t \in SeqRange(d.free_tetrahedron_indices)

\* the check queue of the tessellation is empty
QueueEmpty ==
  /\ dim = 2 => d2.queue = <<>>
  /\ dim = 3 => d3.tetrahedra_to_check = <<>>

\* the simplices of the mesh, each as the set of the integer coordinates of
\* its vertices (the orientation fixes the tuple up to an even permutation)
Simplices2D(d) ==
  {{d.integer_vertices[d.triangles[t].vertices[i]] : i \in 0..2} :
     t \in RealTriangles(d)}

Simplices3D(d) ==
  {{d.integer_vertices[d.tetrahedra[t].vertices[i]] : i \in 0..3} :
     t \in RealTetrahedra(d)}

InsertedPoints2D(d) == {UserPoint2D(d, v) : v \in InsertedVertices2D(d)}

InsertedPoints3D(d) == {UserPoint3D(d, v) : v \in InsertedVertices3D(d)}

\* lexicographic order on points
PointBefore(p, q) ==
  \E k \in 1..Len(p) : p[k] < q[k] /\ \A j \in 1..(k - 1) : p[j] = q[j]

RECURSIVE SortedPoints(_)
SortedPoints(S) ==
  IF S = {} THEN <<>>
  ELSE LET p == CHOOSE p \in S : \A q \in S \ {p} : PointBefore(p, q)
       IN <<p>> \o SortedPoints(S \ {p})

\* the points in the order of their insertion: vertices are numbered in that
\* order (a local vertex is inserted before the tessellation is consolidated)
RECURSIVE InIncreasingOrder(_)
InIncreasingOrder(V) ==
  IF V = {} THEN <<>>
  ELSE <<Min(V)>> \o InIncreasingOrder(V \ {Min(V)})

InsertionOrder2D(d) ==
  LET s == InIncreasingOrder(InsertedVertices2D(d))
  IN [k \in 1..Len(s) |-> UserPoint2D(d, s[k])]

InsertionOrder3D(d) ==
  LET s == InIncreasingOrder(InsertedVertices3D(d))
  IN [k \in 1..Len(s) |-> UserPoint3D(d, s[k])]

\* delaunay_add_new_vertex for each point of pts in turn
RECURSIVE InsertAll2D(_, _)
InsertAll2D(d, pts) ==
  IF pts = <<>> THEN d
  ELSE InsertAll2D(delaunay_add_new_vertex_2d(d, pts[1][1], pts[1][2]).d,
                   Tail(pts))

RECURSIVE InsertAll3D(_, _)
InsertAll3D(d, pts) ==
  IF pts = <<>> THEN d
  ELSE InsertAll3D(
         delaunay_add_new_vertex_3d(d, pts[1][1], pts[1][2], pts[1][3]).d,
         Tail(pts))

\* the mesh built from the points of d inserted in sorted order
ReferenceMesh2D(d) ==
  InsertAll2D(
    delaunay_consolidate_2d(delaunay_init_2d(InitVertexSize, InitSimplexSize)),
    SortedPoints(InsertedPoints2D(d)))

ReferenceMesh3D(d) ==
  InsertAll3D(
    delaunay_consolidate_3d(delaunay_init_3d(InitVertexSize, InitSimplexSize)),
    SortedPoints(InsertedPoints3D(d)))

\* four points on a common circle (in_sphere is zero and they are not on a
\* common line)
Cocircular(a, b, c, e) ==
  /\ geometry2d_in_sphere_exact(a[1], a[2], b[1], b[2], c[1], c[2], e[1], e[2]) = 0
  /\ \/ geometry2d_orient_exact(a[1], a[2], b[1], b[2], c[1], c[2]) # 0
     \/ geometry2d_orient_exact(a[1], a[2], b[1], b[2], e[1], e[2]) # 0
     \/ geometry2d_orient_exact(a[1], a[2], c[1], c[2], e[1], e[2]) # 0
     \/ geometry2d_orient_exact(b[1], b[2], c[1], c[2], e[1], e[2]) # 0

\* five points on a common sphere (in_sphere is zero and they are not in a
\* common plane)
Orient3(a, b, c, e) ==
  geometry_orient_exact(a[1], a[2], a[3], b[1], b[2], b[3],
                        c[1], c[2], c[3], e[1], e[2], e[3])

Cospherical(a, b, c, e, f) ==
  /\ geometry_in_sphere_exact(a[1], a[2], a[3], b[1], b[2], b[3], c[1], c[2],
                              c[3], e[1], e[2], e[3], f[1], f[2], f[3]) = 0
  /\ \/ Orient3(a, b, c, e) # 0
     \/ Orient3(a, b, c, f) # 0
     \/ Orient3(a, b, e, f) # 0
     \/ Orient3(a, c, e, f) # 0
     \/ Orient3(b, c, e, f) # 0

VertexPoints2D(d) ==
  {d.integer_vertices[v] : v \in InsertedVertices2D(d) \cup SuperVertices2D(d)}

VertexPoints3D(d) ==
  {d.integer_vertices[v] : v \in InsertedVertices3D(d) \cup SuperVertices3D(d)}

GeneralPosition2D(d) ==
  \A Q \in SUBSET VertexPoints2D(d) :
    Cardinality(Q) = 4 =>
      LET q == SortedPoints(Q) IN ~Cocircular(q[1], q[2], q[3], q[4])

GeneralPosition3D(d) ==
  \A Q \in SUBSET VertexPoints3D(d) :
    Cardinality(Q) = 5 =>
      LET q == SortedPoints(Q) IN ~Cospherical(q[1], q[2], q[3], q[4], q[5])

\* the simplices the split of the call in progress is about to replace
SplitSimplices ==
  IF dim = 2
    THEN IF frame.flag = 2 THEN {frame.t0, frame.t1} ELSE {frame.t0}
    ELSE SeqRange(d3.tetrahedra_containing_vertex)

\* the vertices the next step of the call in progress hands to orient or
\* in_sphere
LocateVertices ==
  IF dim = 2
    THEN {d2.triangles[frame.t0].vertices[i] : i \in 0..2} \cup {frame.v}
    ELSE {d3.tetrahedra[frame.t0].vertices[i] : i \in 0..3} \cup {frame.v}

CheckVertices2D ==
  IF d2.queue = <<>> \/ d2.triangles[Last(d2.queue)].neighbours[2] < 3 THEN {}
  ELSE LET T == d2.triangles[Last(d2.queue)]
       IN {T.vertices[i] : i \in 0..2}
            \cup {d2.triangles[T.neighbours[2]].vertices[T.index_in_neighbour[2]]}

CheckVertices3D ==
  LET q == skip_inactive(d3, d3.tetrahedra_to_check)
      T == d3.tetrahedra[Last(q)]
      top == IndexOfVertex(T, frame.v)
  IN IF q = <<>> THEN {}
     ELSE IF top = 4 THEN {}
     ELSE IF T.neighbours[top] < 4 THEN {}
     ELSE {T.vertices[i] : i \in 0..3}
            \cup {d3.tetrahedra[T.neighbours[top]]
                    .vertices[T.index_in_neighbour[top]]}

PredicateVertices ==
  IF frame.pc = "locate" THEN LocateVertices
  ELSE IF frame.pc = "check"
    THEN IF dim = 2 THEN CheckVertices2D ELSE CheckVertices3D
  ELSE {}


\* the corners of the enclosing simplex in integer coordinates, in the order
\* in which delaunay_init creates them
BoxCorners2D(d) == <<<<0, 0>>, <<d.box_side, 0>>, <<0, d.box_side>>>>

BoxCorners3D(d) ==
  <<<<0, 0, 0>>, <<d.box_side, 0, 0>>, <<0, d.box_side, 0>>, <<0, 0, d.box_side>>>>

\* the vertices first, first + 1, ... are the corners of the enclosing simplex
SuperSimplexAt2D(d, first) ==
  \A i \in 1..3 : d.integer_vertices[first + i - 1] = BoxCorners2D(d)[i]

SuperSimplexAt3D(d, first) ==
  \A i \in 1..4 : d.integer_vertices[first + i - 1] = BoxCorners3D(d)[i]

\* the tessellation of the run and its primed copy, whatever the dimension
Mesh == IF dim = 2 THEN d2 ELSE d3

\* a call of delaunay_add_local_vertex or delaunay_add_new_vertex is entered
CallEntered == frame.pc = "idle" /\ frame'.pc = "locate"

-----------------------------------------------------------------------------
(* Claims *)

\* C1: after delaunay_init and after every return of delaunay_add_vertex,
\* every active non-dummy simplex A with neighbour B in slot i is the
\* neighbour of B in slot A.index_in_neighbour[i], and if B is not a dummy
\* its index_in_neighbour there is i (2D and 3D).
C1_NeighbourSymmetry ==
  Returned => /\ dim = 2 => NeighbourSymmetry2D(d2)
              /\ dim = 3 => NeighbourSymmetry3D(d3)

\* C2: after every return of delaunay_add_vertex in 3D, for every pair of
\* adjacent active non-dummy tetrahedra the vertex of the one opposite the
\* shared face is not strictly inside the circumsphere of the other
\* (in_sphere >= 0 in the sign convention of the code).
C2_Delaunay3D == (Returned /\ dim = 3) => LocallyDelaunay3D(d3)

\* C3: after every return of delaunay_add_vertex in 2D, for every pair of
\* adjacent non-dummy triangles the opposite vertex is not strictly inside
\* the circumcircle (in_sphere <= 0); a cocircular opposite vertex
\* (in_sphere = 0) is accepted.
C3_Delaunay2D == (Returned /\ dim = 2) => LocallyDelaunay2D(d2)

\* C4: in 3D every active non-dummy tetrahedron is strictly positively
\* oriented in the convention of the code (orient < 0), in every state
\* between the flips.
C4_Orientation3D ==
  dim = 3 => \A t \in RealTetrahedra(d3) : Orientation3D(d3, t) < 0

\* C5: in 2D every non-dummy triangle is strictly counterclockwise
\* (orient > 0), in every state between the splits and flips.
C5_Orientation2D ==
  dim = 2 => \A t \in RealTriangles(d2) : Orientation2D(d2, t) > 0

\* C6: after every return of delaunay_add_vertex, the back-link of every
\* inserted vertex and of every super vertex names an active non-dummy
\* simplex that has the vertex at the recorded slot.
C6_BackLinks ==
  Returned => /\ dim = 2 => BackLinks2D(d2)
              /\ dim = 3 => BackLinks3D(d3)

\* C7: after every return of delaunay_add_vertex in 3D, no active
\* tetrahedron has an inactive neighbour, no back-link names an inactive
\* tetrahedron and every inactive slot below tetrahedron_index is in the
\* free list.
C7_InactiveSlots == (Returned /\ dim = 3) => InactiveSlots3D(d3)

\* C8: under the scheduling of the code (a call in progress runs on), every
\* run of the restore loop (delaunay_check_triangles, delaunay_check_tetrahedra)
\* ends: delaunay_add_vertex returns, and whenever it has returned the check
\* queue is empty; runs with deferred 4-to-4 or 3-to-2 candidates included.
C8_CascadeTerminates == (frame.pc = "check") ~> (Returned /\ QueueEmpty)

\* C9 as the specification states it: the mesh of every run has the same
\* set of simplices as the mesh built from the same points in sorted order,
\* whatever the points (hence any two orders give the same set).
C9_OrderIndependence_AnyPoints ==
  Returned => /\ dim = 2 => Simplices2D(d2) = Simplices2D(ReferenceMesh2D(d2))
              /\ dim = 3 => Simplices3D(d3) = Simplices3D(ReferenceMesh3D(d3))

\* C9, amended: the same when no d+2 of the vertices of the mesh, those of the
\* super-simplex included, lie on a common circle (2D) or sphere (3D).
C9_OrderIndependence ==
  Returned =>
    /\ (dim = 2 /\ GeneralPosition2D(d2))
         => Simplices2D(d2) = Simplices2D(ReferenceMesh2D(d2))
    /\ (dim = 3 /\ GeneralPosition3D(d3))
         => Simplices3D(d3) = Simplices3D(ReferenceMesh3D(d3))

\* C10: for every inserted point that delaunay_init_vertex accepts, the walk
\* is never on a dummy simplex, no dummy is among the simplices the split
\* replaces, and the vertex -1 is never handed to orient or in_sphere.
C10_DummiesUntouched ==
  /\ frame.pc = "locate" => frame.t0 > dim
  /\ frame.pc = "split" => \A t \in SplitSimplices : t > dim
  /\ -1 \notin PredicateVertices

\* C11: in 3D a step that calls delaunay_new_tetrahedron k times while the
\* free list holds f slots takes the min(k, f) most recently pushed slots off
\* the free list and makes them active, and advances tetrahedron_index by
\* the k - min(k, f) calls that found the list empty only; tetrahedron_size
\* changes only in a step that leaves the free list empty and takes
\* tetrahedron_index beyond the old size.
C11_FreelistReuse ==
  [][dim = 3 =>
       LET free == d3.free_tetrahedron_indices
           k == NewTetrahedra3D
           reused == IF k < Len(free) THEN k ELSE Len(free)
       IN /\ k > 0 =>
               /\ d3'.free_tetrahedron_indices = SubSeq(free, 1, Len(free) - reused)
               /\ \A j \in (Len(free) - reused + 1)..Len(free) :
                    d3'.tetrahedra[free[j]].active = 1
               /\ d3'.tetrahedron_index = d3.tetrahedron_index + (k - reused)
          /\ d3'.tetrahedron_size # d3.tetrahedron_size =>
               /\ k > Len(free)
               /\ d3'.free_tetrahedron_indices = <<>>
               /\ d3'.tetrahedron_index > d3.tetrahedron_size
               /\ d3'.tetrahedron_size = 2 * d3.tetrahedron_size
          /\ d3'.tetrahedron_index > d3.tetrahedron_size =>
               d3'.tetrahedron_size # d3.tetrahedron_size
  ]_vars

ZeroTests3D(d, v, t) ==
  LET T == d.tetrahedra[t]
  IN Len(find_tetrahedra_zeros(
           orient_vertices(d, T.vertices[0], T.vertices[1], T.vertices[2], v),
           orient_vertices(d, T.vertices[0], T.vertices[2], T.vertices[3], v),
           orient_vertices(d, T.vertices[0], T.vertices[3], T.vertices[1], v),
           orient_vertices(d, T.vertices[1], T.vertices[3], T.vertices[2], v)))

\* the test of the triangle the 2D walk is at falls in the default branch
ImpossibleCase2D ==
  /\ frame.first \/ frame.count + 1 < d2.triangle_index
  /\ \A choice \in 0..1 :
       delaunay_test_point_inside_triangle(d2, frame.v, frame.t0,
                                           frame.ngb_index, choice).flag = -1

\* the tetrahedron the 3D walk is at has no positive test and three or more
\* zero tests
ImpossibleCase3D ==
  /\ find_tetrahedra_step(d3, frame.v, frame.t0).kind = "abort"
  /\ ZeroTests3D(d3, frame.v, frame.t0) >= 3

\* the simplices are those of the state before the step
SimplicesUnchanged ==
  IF dim = 2
    THEN /\ d2'.triangles = d2.triangles
         /\ d2'.triangle_index = d2.triangle_index
         /\ d2'.queue = d2.queue
    ELSE /\ d3'.tetrahedra = d3.tetrahedra
         /\ d3'.tetrahedron_index = d3.tetrahedron_index
         /\ d3'.free_tetrahedron_indices = d3.free_tetrahedron_indices
         /\ d3'.tetrahedra_to_check = d3.tetrahedra_to_check

\* C19: the insertion of a point whose integer coordinates are those of a
\* vertex already in the mesh ends in the abort outcome during point
\* location (2D: impossible sign pattern; 3D: three or more zero orientation
\* tests), whatever simplex the walk starts from: the call only walks, for
\* fewer rounds than there are simplices, never reaches the split, and no
\* simplex is changed before the abort.
C19_DuplicateAborts ==
  []["duplicate" \in cases' =>
       /\ cases' = {"duplicate"}
       /\ frame'.pc \in {"locate", "abort"}
       /\ rounds' <= (IF dim = 2 THEN d2.triangle_index ELSE d3.tetrahedron_index)
       /\ SimplicesUnchanged
       /\ "duplicate" \in cases =>
            /\ frame.pc = "locate"
            /\ frame'.pc = "abort" =>
                 IF dim = 2 THEN ImpossibleCase2D ELSE ImpossibleCase3D
  ]_vars

\* no point has been inserted yet
Bootstrapped ==
  /\ Returned
  /\ IF dim = 2 THEN InsertedVertices2D(d2) = {} ELSE InsertedVertices3D(d3) = {}

BootstrapState2D(d) ==
  /\ d.triangle_index = 4
  /\ DOMAIN d.triangles = 0..3
  /\ \A t \in 0..2 : d.triangles[t].vertices[2] = -1
  /\ d.triangles[3].vertices = [i \in 0..2 |-> d.vertex_end + i]
  /\ d.vertex_index = d.vertex_end + 3
  /\ \A i \in 0..2 :
       LET n == d.triangles[3].neighbours[i]
       IN /\ n \in 0..2
          /\ d.triangles[n].vertices[2] = -1
          /\ {d.triangles[n].vertices[0], d.triangles[n].vertices[1]}
               = {d.triangles[3].vertices[j] : j \in (0..2) \ {i}}
          /\ d.triangles[n].neighbours[2] = 3
          /\ d.triangles[n].index_in_neighbour[2] = i
          /\ d.triangles[3].index_in_neighbour[i] = 2
  /\ \A i \in 0..2 :
       /\ d.vertex_triangles[d.vertex_end + i] = 3
       /\ d.vertex_triangle_index[d.vertex_end + i] = i

BootstrapState3D(d) ==
  /\ d.tetrahedron_index = 5
  /\ DOMAIN d.tetrahedra = 0..4
  /\ d.free_tetrahedron_indices = <<>>
  /\ \A t \in 0..3 : d.tetrahedra[t].vertices[3] = -1
  /\ d.tetrahedra[4].vertices = [i \in 0..3 |-> d.vertex_end + i]
  /\ d.tetrahedra[4].active = 1
  /\ d.vertex_index = d.vertex_end + 4
  /\ \A i \in 0..3 :
       LET n == d.tetrahedra[4].neighbours[i]
       IN /\ n \in 0..3
          /\ d.tetrahedra[n].vertices[3] = -1
          /\ {d.tetrahedra[n].vertices[j] : j \in 0..2}
               = {d.tetrahedra[4].vertices[j] : j \in (0..3) \ {i}}
          /\ d.tetrahedra[n].neighbours[3] = 4
          /\ d.tetrahedra[n].index_in_neighbour[3] = i
          /\ d.tetrahedra[4].index_in_neighbour[i] = 3
  /\ \A i \in 0..3 :
       /\ d.vertex_tetrahedron_links[d.vertex_end + i] = 4
       /\ d.vertex_tetrahedron_index[d.vertex_end + i] = i

\* C20: immediately after delaunay_init the simplex array holds exactly d+2
\* simplices, the dummies at 0..d and the super-simplex at d+1 as the only
\* real simplex; the neighbour in slot i of the super-simplex is a dummy
\* whose last vertex is -1, whose other vertices are the face of the
\* super-simplex opposite vertex i and whose last slot points back to the
\* super-simplex with index i; the back-links of the d+1 super vertices name
\* the super-simplex.
C20_BootstrapState ==
  Bootstrapped =>
    IF dim = 2 THEN BootstrapState2D(d2) ELSE BootstrapState3D(d3)

\* voronoi_init has returned
GridDone == vor.status = "done"

\* the active tetrahedra that have vertex g
TetrahedraOf(d, g) ==
  {t \in RealTetrahedra(d) : \E i \in 0..3 : d.tetrahedra[t].vertices[i] = g}

\* the vertices that share a Delaunay edge with vertex g
DelaunayNeighbours(d, g) ==
  {d.tetrahedra[t].vertices[i] : t \in TetrahedraOf(d, g), i \in 0..3} \ {g}

\* the fan of the edge (g, a)
EdgeFan(d, g, a) == TetrahedraOf(d, g) \cap TetrahedraOf(d, a)

\* the vertices the sweep of generator g popped, in the order of the pops
Popped(g) == [k \in 1..Len(vor.swept[g + 1]) |-> vor.swept[g + 1][k][2]]

\* the pairs of list sid between left and right
PairsOf(sid, left, right) ==
  {j \in 1..Len(vor.v.pairs[sid]) :
     vor.v.pairs[sid][j].left = left /\ vor.v.pairs[sid][j].right = right}

\* C14: voronoi_init is read-only on the Delaunay mesh: the step that builds
\* the grid leaves every field of the tessellation (vertex tuples,
\* neighbours, index_in_neighbour, active flags, back-links, free list, check
\* queue, last_tetrahedron, ghost_offset) as it was.
C14_VoronoiReadOnly ==
  [][vor'.status # vor.status => d3' = d3 /\ d2' = d2 /\ frame' = frame]_vars

C16_FaceClassification ==
  GridDone =>
    /\ \A j \in 1..Len(vor.v.pairs[0]) :
         /\ vor.v.pairs[0][j].right < d3.ghost_offset
         /\ vor.v.pairs[0][j].left < vor.v.pairs[0][j].right
    /\ \A j \in 1..Len(vor.v.pairs[1]) :
         vor.v.pairs[1][j].right >= d3.ghost_offset
    /\ \A g \in 0..(vor.v.number_of_cells - 1) : \A k \in 1..Len(Popped(g)) :
         LET a == Popped(g)[k]
         IN IF a < d3.ghost_offset
              THEN /\ Cardinality(PairsOf(0, g, a) \cup PairsOf(0, a, g)) = 1
                   /\ PairsOf(0, IF g < a THEN g ELSE a, IF g < a THEN a ELSE g) # {}
                   /\ PairsOf(1, g, a) = {}
              ELSE /\ Cardinality(PairsOf(1, g, a)) = 1
                   /\ PairsOf(0, g, a) = {}
    /\ vor.v.pair_index[0] = Len(vor.v.pairs[0])
    /\ vor.v.pair_index[1] = Len(vor.v.pairs[1])
    /\ \A sid \in 0..1 : \A j \in 1..Len(vor.v.pairs[sid]) :
         \E k \in 1..Len(Popped(vor.v.pairs[sid][j].left)) :
           Popped(vor.v.pairs[sid][j].left)[k] = vor.v.pairs[sid][j].right

\* C17: on a mesh on which voronoi_init returns, the sweep of generator g
\* pops each vertex that shares a Delaunay edge with g exactly once and pops
\* nothing else, and the number of faces counted for g is the number of
\* distinct Delaunay neighbours of g.
C17_SweepCoverage ==
  GridDone =>
    \A g \in 0..(vor.v.number_of_cells - 1) :
      /\ \A j, k \in 1..Len(Popped(g)) : Popped(g)[j] = Popped(g)[k] => j = k
      /\ {Popped(g)[k] : k \in 1..Len(Popped(g))} = DelaunayNeighbours(d3, g)
      /\ vor.v.cells[g].nface = Cardinality(DelaunayNeighbours(d3, g))

\* the listings of the fan of the edge (g, a) in rotation order: every fan
\* tetrahedron once, each next to the one before it, the last next to the first
FanRotations(d, g, a) ==
  LET fan == EdgeFan(d, g, a)
      n == Cardinality(fan)
  IN {f \in [1..n -> fan] :
        /\ \A j, k \in 1..n : f[j] = f[k] => j = k
        /\ \A k \in 1..n :
             \E i \in 0..3 : d.tetrahedra[f[k]].neighbours[i] = f[(k % n) + 1]}

\* C18: for a Delaunay edge (g, a) whose fan has n tetrahedra, the vertex list
\* handed to the face is the circumcenters of those n fan tetrahedra in
\* rotation order, each fan tetrahedron contributing exactly one vertex (n
\* vertices in total).
C18_FaceVertices ==
  GridDone =>
    \A sid \in 0..1 : \A j \in 1..Len(vor.v.pairs[sid]) :
      LET pair == vor.v.pairs[sid][j]
      IN /\ pair.n_vertices = Cardinality(EdgeFan(d3, pair.left, pair.right))
         /\ \E f \in FanRotations(d3, pair.left, pair.right) :
              pair.vertices = [k \in 1..Len(f) |-> tetrahedron_circumcenter(d3, f[k])]

\* the step is the split of delaunay_add_vertex
SplitStep == frame.pc = "split" /\ frame'.pc = "check"

\* the simplices of the tessellation d that have the vertex v
SimplicesWith2D(d, v) ==
  {t \in 0..(d.triangle_index - 1) :
     \E i \in 0..2 : d.triangles[t].vertices[i] = v}

SimplicesWith3D(d, v) ==
  {t \in 0..(d.tetrahedron_index - 1) :
     /\ d.tetrahedra[t].active = 1
     /\ \E i \in 0..3 : d.tetrahedra[t].vertices[i] = v}

\* the number of simplices that replace n simplices holding the new vertex
SplitCount(n) ==
  IF dim = 2 THEN n + 2 ELSE IF n = 1 THEN 4 ELSE IF n = 2 THEN 6 ELSE 2 * n

SplitStep2D ==
  LET old == SplitSimplices
      new == SimplicesWith2D(d2', frame.v)
  IN /\ SimplicesWith2D(d2, frame.v) = {}
     /\ old \subseteq new
     /\ new \ old = d2.triangle_index..(d2'.triangle_index - 1)
     /\ Cardinality(old) = IF frame.flag = 1 THEN 1 ELSE 2
     /\ Cardinality(new) = SplitCount(Cardinality(old))
     /\ SeqRange(d2'.queue) = new
     /\ \A t \in 0..(d2.triangle_index - 1) :
          t \notin old => d2'.triangles[t].vertices = d2.triangles[t].vertices

SplitStep3D ==
  LET old == SplitSimplices
      new == SimplicesWith3D(d3', frame.v)
      n == Len(d3.tetrahedra_containing_vertex)
  IN /\ SimplicesWith3D(d3, frame.v) = {}
     /\ Cardinality(old) = n
     /\ old \subseteq new
     /\ new \ old \subseteq
          SeqRange(d3.free_tetrahedron_indices)
            \cup d3.tetrahedron_index..(d3'.tetrahedron_index - 1)
     /\ Cardinality(new) = SplitCount(n)
     /\ SeqRange(d3'.tetrahedra_to_check) = new
     /\ \A t \in 0..(d3.tetrahedron_index - 1) :
          t \notin new =>
            /\ d3'.tetrahedra[t].vertices = d3.tetrahedra[t].vertices
            /\ d3'.tetrahedra[t].active = d3.tetrahedra[t].active
     /\ n = 1 =>
          LET T == d3.tetrahedra[d3.tetrahedra_containing_vertex[1]]
          IN \A i \in 0..3 : \E t \in new :
               d3'.tetrahedra[t].vertices = [T.vertices EXCEPT ![i] = frame.v]

\* C21: the split step replaces the simplices located for v by simplices that
\* all have v, in the old slots and in newly claimed ones, before any restore
\* flip: 2D 1 to 3 and 2 to 4; 3D 1 to 4 (each of the four is T with one
\* vertex replaced by v), 2 to 6 and n to 2n; a point on the edge or face two
\* simplices share gives 2d simplices.
C21_SplitStep ==
  [][SplitStep =>
       /\ dim = 2 => SplitStep2D
       /\ dim = 3 => SplitStep3D
       /\ Cardinality(SplitSimplices) = 2 =>
            Cardinality(IF dim = 2 THEN SimplicesWith2D(d2', frame.v)
                                   ELSE SimplicesWith3D(d3', frame.v)) = 2 * dim
  ]_vars

\* C22: in 2D, after n insertions that returned (triangles split in three or
\* in four, edges flipped or not) the mesh holds exactly 1 + 2n non-dummy
\* triangles: triangle_index = 4 + 2n, and the slots from 3 on hold pairwise
\* different triangles none of which has the vertex -1.
C22_TriangleCount ==
  (dim = 2 /\ Returned) =>
    LET n == Cardinality(InsertedVertices2D(d2))
    IN /\ d2.triangle_index = 4 + 2 * n
       /\ Cardinality(RealTriangles(d2)) = 1 + 2 * n
       /\ Cardinality(Simplices2D(d2)) = 1 + 2 * n
       /\ \A t \in RealTriangles(d2) : \A i \in 0..2 :
            d2.triangles[t].vertices[i] >= 0
       /\ \A t \in 0..2 : d2.triangles[t].vertices[2] = -1

\* the sequence s without its element j
Without(s, j) == [k \in 1..(Len(s) - 1) |-> IF k < j THEN s[k] ELSE s[k + 1]]

\* the matrix M (a sequence of rows) without its first row and its column j
Minor(M, j) == [i \in 1..(Len(M) - 1) |-> Without(M[i + 1], j)]

\* the determinant of the square matrix M, expanded along its first row
RECURSIVE Determinant(_)
RECURSIVE CofactorSum(_, _)
CofactorSum(M, j) ==
  IF j = 0 THEN 0
  ELSE CofactorSum(M, j - 1)
         + (IF j % 2 = 1 THEN 1 ELSE -1) * M[1][j] * Determinant(Minor(M, j))

Determinant(M) == IF Len(M) = 1 THEN M[1][1] ELSE CofactorSum(M, Len(M))

Diff(p, q) == <<p[1] - q[1], p[2] - q[2], p[3] - q[3]>>

\* the row (p - e, |p - e|^2) of the lifting determinant
LiftedRow(p, e) ==
  LET s == Diff(p, e) IN s \o <<s[1] * s[1] + s[2] * s[2] + s[3] * s[3]>>

\* the points a, b, c, e lie in a common plane: the vectors from a to the
\* others satisfy a linear relation
Coplanar(a, b, c, e) ==
  LET u == Diff(b, a)
      v == Diff(c, a)
      w == Diff(e, a)
      K == (-MaxCoefficient)..MaxCoefficient
  IN \E l, m, n \in K :
       /\ <<l, m, n>> # <<0, 0, 0>>
       /\ \A k \in 1..3 : l * u[k] + m * v[k] + n * w[k] = 0

\* the 4 out of 5 points: p without its element j
FourOf(p, j) == Without(p, j)

\* the five points p lie in a common plane
AllCoplanar(p) ==
  \A j \in 1..5 :
    Coplanar(FourOf(p, j)[1], FourOf(p, j)[2], FourOf(p, j)[3], FourOf(p, j)[4])

\* the squared distance between the point q and the point c given by
\* rational coordinates, times the square of the denominator of c
Distance2(c, q) ==
  (c[4] * q[1] - c[1]) * (c[4] * q[1] - c[1])
    + (c[4] * q[2] - c[2]) * (c[4] * q[2] - c[2])
    + (c[4] * q[3] - c[3]) * (c[4] * q[3] - c[3])

Circumcentre(a, b, c, e) ==
  geometry3d_compute_circumcenter(a[1], a[2], a[3], b[1], b[2], b[3],
                                  c[1], c[2], c[3], e[1], e[2], e[3])

\* the five points p lie on a common sphere: four of them that are not in a
\* common plane have a point at equal distance from all five
Cospherical5(p) ==
  \E j \in 1..5 :
    LET q == FourOf(p, j)
        c == Circumcentre(q[1], q[2], q[3], q[4])
    IN /\ ~Coplanar(q[1], q[2], q[3], q[4])
       /\ c # NAN
       /\ \A k \in 2..5 : Distance2(c, p[k]) = Distance2(c, p[1])

\* the sign geometry_orient_exact returned is that of the determinant
OrientIsDeterminant ==
  LET p == geo.args
  IN /\ geo.sign = Sgn(Determinant(<<Diff(p[1], p[4]), Diff(p[2], p[4]),
                                     Diff(p[3], p[4])>>))
     /\ geo.sign = 0 <=> Coplanar(p[1], p[2], p[3], p[4])
     /\ p = <<<<0, 0, 0>>, <<0, 0, 1>>, <<0, 1, 0>>, <<1, 0, 0>>>> => geo.sign = 1

\* the sign geometry_in_sphere_exact returned is that of the lifting
\* determinant
InSphereIsDeterminant ==
  LET p == geo.args
  IN geo.sign = Sgn(Determinant(<<LiftedRow(p[1], p[5]), LiftedRow(p[2], p[5]),
                                  LiftedRow(p[3], p[5]), LiftedRow(p[4], p[5])>>))

\* C23 as the specification states it: geometry_orient_exact returns the sign
\* of the determinant of (a - d, b - d, c - d), 0 iff the four points are
\* coplanar and +1 for (0,0,0), (0,0,1), (0,1,0), (1,0,0);
\* geometry_in_sphere_exact returns the sign of the lifting determinant of
\* (a - e, b - e, c - e, d - e), 0 iff the five points are cospherical or the
\* first four are coplanar.
C23_ExactPredicates_FirstFourCoplanar ==
  /\ geo.fn = "orient" => OrientIsDeterminant
  /\ geo.fn = "in_sphere" =>
       /\ InSphereIsDeterminant
       /\ geo.sign = 0 <=>
            \/ Cospherical5(geo.args)
            \/ Coplanar(geo.args[1], geo.args[2], geo.args[3], geo.args[4])

\* C23, amended: the same, geometry_in_sphere_exact returning 0 iff the five
\* points lie on a common sphere or in a common plane.
C23_ExactPredicates ==
  /\ geo.fn = "orient" => OrientIsDeterminant
  /\ geo.fn = "in_sphere" =>
       /\ InSphereIsDeterminant
       /\ geo.sign = 0 <=> (Cospherical5(geo.args) \/ AllCoplanar(geo.args))

\* the sign of geometry_orient_exact worked out from the coordinates alone
OrientOf(p) ==
  geometry_orient_exact(p[1][1], p[1][2], p[1][3], p[2][1], p[2][2], p[2][3],
                        p[3][1], p[3][2], p[3][3], p[4][1], p[4][2], p[4][3])

InSphereOf(p) ==
  geometry_in_sphere_exact(p[1][1], p[1][2], p[1][3], p[2][1], p[2][2], p[2][3],
                           p[3][1], p[3][2], p[3][3], p[4][1], p[4][2], p[4][3],
                           p[5][1], p[5][2], p[5][3])

\* the variables the last call of geometry_in_sphere_exact wrote and
\* geometry_orient_exact does not write
LeftByInSphere ==
  {"eix", "eiy", "eiz", "s4x", "s4y", "s4z", "tmp2", "ab", "bc", "cd", "da",
   "ac", "bd"}

\* C25: the sign an exact predicate returns depends on its coordinate
\* arguments only: whatever the earlier calls left in the variables of the
\* geometry object, the call returns the sign that the same call returns on
\* a fresh object, which is the sign the builder's call sites get for these
\* coordinates.
C25_PredicatePurity ==
  LET p == geo.args
  IN /\ geo.fn = "orient" =>
          /\ geo.sign = OrientOf(p)
          /\ geo.sign =
               geometry_orient_exact_call(
                 geometry_init, p[1][1], p[1][2], p[1][3], p[2][1], p[2][2],
                 p[2][3], p[3][1], p[3][2], p[3][3], p[4][1], p[4][2],
                 p[4][3]).sign
     /\ geo.fn = "in_sphere" =>
          /\ geo.sign = InSphereOf(p)
          /\ geo.sign =
               geometry_in_sphere_exact_call(
                 geometry_init, p[1][1], p[1][2], p[1][3], p[2][1], p[2][2],
                 p[2][3], p[3][1], p[3][2], p[3][3], p[4][1], p[4][2], p[4][3],
                 p[5][1], p[5][2], p[5][3]).sign

\* the vertices of the 3D tessellation that have coordinates
PlacedVertices3D == InsertedVertices3D(d3) \cup SuperVertices3D(d3)

\* in_sphere of the tetrahedron t against the vertex e
InSphereOfVertex(t, e) ==
  LET T == d3.tetrahedra[t]
  IN in_sphere_vertices(d3, T.vertices[0], T.vertices[1], T.vertices[2],
                        T.vertices[3], e)

\* the centre of the sphere through the vertices of the tetrahedron t
CircumcentreOf(t) ==
  LET T == d3.tetrahedra[t]
  IN Circumcentre(d3.integer_vertices[T.vertices[0]],
                  d3.integer_vertices[T.vertices[1]],
                  d3.integer_vertices[T.vertices[2]],
                  d3.integer_vertices[T.vertices[3]])

\* the distance of the vertex e to the centre, compared with the radius
\* (-1: strictly inside the sphere through the vertices of t, 0: on it,
\* 1: strictly outside)
SidePosition(t, e) ==
  LET c == CircumcentreOf(t)
  IN Sgn(Distance2(c, d3.integer_vertices[e])
           - Distance2(c, d3.integer_vertices[d3.tetrahedra[t].vertices[0]]))

\* in_sphere of t against every vertex that has coordinates is the sign of
\* the distance of the vertex to the centre c less the radius, c being at
\* equal distance from the four vertices of t
InSphereIsSide(t, c) ==
  LET r == Distance2(c, d3.integer_vertices[d3.tetrahedra[t].vertices[0]])
  IN /\ \A i \in 1..3 :
          Distance2(c, d3.integer_vertices[d3.tetrahedra[t].vertices[i]]) = r
     /\ \A e \in PlacedVertices3D :
          LET side == Sgn(Distance2(c, d3.integer_vertices[e]) - r)
              test == InSphereOfVertex(t, e)
          IN (test < 0 <=> side < 0) /\ test = side

\* C24 as the specification states it: for every tetrahedron of the builder
\* (positively oriented in its sense: orient < 0) and every vertex e,
\* in_sphere is positive iff e is strictly inside the sphere through the
\* vertices of the tetrahedron.
C24_InSpherePositiveInside ==
  dim = 3 =>
    \A t \in RealTetrahedra(d3) : \A e \in PlacedVertices3D :
      Orientation3D(d3, t) < 0 =>
        (InSphereOfVertex(t, e) > 0 <=> SidePosition(t, e) < 0)

\* C24, amended: in_sphere is negative iff e is strictly inside the sphere
\* (and positive iff e is strictly outside, zero iff e is on it).
C24_InSphereNegativeInside ==
  dim = 3 =>
    \A t \in RealTetrahedra(d3) :
      Orientation3D(d3, t) < 0 => InSphereIsSide(t, CircumcentreOf(t))

\* C26: whatever initial vertex and simplex capacities delaunay_init is given,
\* every index handed out by delaunay_new_vertex, delaunay_new_triangle or
\* delaunay_new_tetrahedron is strictly smaller than the capacity its array
\* has when the index is returned.
C26_Capacity == Tessellation.overrun = {}

\* the same for the initial capacities that are at least 1
C26_CapacityFromOne ==
  (Tessellation.vertex_start < Tessellation.vertex_end
     /\ (dim = 2 => d2.triangle_size > 0)
     /\ (dim = 3 => d3.tetrahedron_size > 0))
    => Tessellation.overrun = {}

\* the local vertices
LocalVertices2D(d) == d.vertex_start..(d.vertex_end - 1)

\* the triangles vertex i is a vertex of
IncidentTriangles(d, i) ==
  {t \in RealTriangles(d) : \E k \in 0..2 : d.triangles[t].vertices[k] = i}

SquaredLength(p, q) ==
  (p[1] - q[1]) * (p[1] - q[1]) + (p[2] - q[2]) * (p[2] - q[2])

\* twice the circumradius of triangle t by the law of sines: the product of
\* the sides over twice the area
Diameter(d, t) ==
  LET a == d.integer_vertices[d.triangles[t].vertices[0]]
      b == d.integer_vertices[d.triangles[t].vertices[1]]
      c == d.integer_vertices[d.triangles[t].vertices[2]]
      area2 == (b[1] - a[1]) * (c[2] - a[2]) - (b[2] - a[2]) * (c[1] - a[1])
  IN radius_reduced(
       SquaredLength(a, b) * SquaredLength(b, c) * SquaredLength(c, a),
       area2 * area2)

\* q is the largest diameter of the triangles of T
LargestDiameter(d, T, q) ==
  /\ \E t \in T : Diameter(d, t) = q
  /\ \A t \in T : ~radius_gt(Diameter(d, t), q)

\* the elements of a sequence
Range(s) == {s[k] : k \in DOMAIN s}

\* delaunay_update_search_radii may be called: no insertion is in progress
\* and every local vertex has been inserted
RadiiReadable == dim = 2 /\ frame.pc = "idle" /\ FreeLocal2D(d2) = {}

UpdatedAsClaimed(d, r) ==
  LET res == delaunay_update_search_radii(d, r)
      new == res.d.search_radii
  IN /\ res.back
     /\ [res.d EXCEPT !.search_radii = d.search_radii] = d
     /\ DOMAIN new = DOMAIN d.search_radii
     /\ \A i \in DOMAIN new :
          IF i \in LocalVertices2D(d) /\ radius_gt(d.search_radii[i], radius_of(r))
            THEN LET walk == update_search_radius(d, i).visited
                 IN /\ Range(walk) = IncidentTriangles(d, i)
                    /\ Len(walk) = Cardinality(IncidentTriangles(d, i))
                    /\ LargestDiameter(d, IncidentTriangles(d, i), new[i])
            ELSE new[i] = d.search_radii[i]
     /\ res.count =
          Cardinality({i \in LocalVertices2D(d) : radius_gt(new[i], radius_of(r))})

\* C27: delaunay_update_search_radii(r) leaves the radius of every vertex
\* whose radius is <= r as it is, gives every other local vertex twice the
\* largest circumradius over exactly the triangles incident to it, the walk
\* around the vertex coming back to the back-linked triangle, and returns the
\* number of local vertices whose radius after the call exceeds r.
C27_SearchRadii ==
  RadiiReadable => \A r \in SearchRadii : UpdatedAsClaimed(d2, r)

\* twice the signed area of (p, q, a): positive iff a is on the left of the
\* directed edge from p to q
SignedArea(p, q, a) ==
  p[1] * q[2] - p[2] * q[1] + q[1] * a[2] - q[2] * a[1] + a[1] * p[2] - a[2] * p[1]

\* the sign of vertex v against the directed edge of triangle t that is
\* opposite its vertex k
EdgeSign(d, v, t, k) ==
  LET T == d.triangles[t]
  IN Sgn(SignedArea(d.integer_vertices[T.vertices[(k + 1) % 3]],
                    d.integer_vertices[T.vertices[(k + 2) % 3]],
                    d.integer_vertices[v]))

EdgesOfSign(d, v, t, s) == {k \in 0..2 : EdgeSign(d, v, t, k) = s}

\* the outcome in frame f of the test of vertex v against triangle t is the
\* one claimed for the signs
OutcomeAsClaimed(d, v, t, f) ==
  LET T == d.triangles[t]
      negative == EdgesOfSign(d, v, t, -1)
      zero == EdgesOfSign(d, v, t, 0)
      positive == EdgesOfSign(d, v, t, 1)
  IN /\ (f.pc = "tested" /\ f.flag = 1) <=> positive = 0..2
     /\ (f.pc = "tested" /\ f.flag = 1) => f.t1 = t
     /\ (f.pc = "tested" /\ f.flag = 2)
          <=> (Cardinality(zero) = 1 /\ Cardinality(positive) = 2)
     /\ (f.pc = "tested" /\ f.flag = 2)
          => \A k \in zero : f.t1 = T.neighbours[k] /\ f.ngb_index = k
     /\ (f.pc = "tested" /\ f.flag = 0) <=> Cardinality(negative) \in 1..2
     /\ (f.pc = "tested" /\ f.flag = 0)
          => \E k \in negative : f.t1 = T.neighbours[k]
     /\ f.pc = "abort"
          <=> \/ Cardinality(negative) = 3
              \/ (negative = {} /\ Cardinality(zero) \in 2..3)

\* when one or two signs are negative, each neighbour across a negative edge
\* can be the one chosen
EitherNegativeEdge(d, v, t) ==
  Cardinality(EdgesOfSign(d, v, t, -1)) \in 1..2 =>
  \A k \in EdgesOfSign(d, v, t, -1) :
    \E choice \in 0..1 :
      delaunay_test_point_inside_triangle(d, v, t, -1, choice).t_new =
        d.triangles[t].neighbours[k]

\* C28: delaunay_test_point_inside_triangle returns 1 with t_new = t iff the
\* three signs are positive, 2 with the neighbour across edge k and
\* ngb_index = k iff sign k is zero and the other two are positive, 0 with the
\* neighbour across a negative edge (either of them when two are negative)
\* iff one or two signs are negative, and aborts for every other pattern.
C28_PointInTriangle ==
  (dim = 2 /\ frame.pc \in {"tested", "abort"} /\ frame.t0 > 2)
    => /\ OutcomeAsClaimed(d2, frame.v, frame.t0, frame)
       /\ EitherNegativeEdge(d2, frame.v, frame.t0)

\* vertex v is inside triangle t or on one of its edges
Contains2D(d, v, t) ==
  /\ t \in RealTriangles(d)
  /\ \A k \in 0..2 : EdgeSign(d, v, t, k) >= 0
  /\ Cardinality(EdgesOfSign(d, v, t, 0)) <= 1

\* vertex v is strictly inside the super-triangle
InsideSuperTriangle(d, v) ==
  LET s == d.vertex_end
  IN /\ Sgn(SignedArea(d.integer_vertices[s], d.integer_vertices[s + 1],
                        d.integer_vertices[v])) > 0
     /\ Sgn(SignedArea(d.integer_vertices[s + 1], d.integer_vertices[s + 2],
                        d.integer_vertices[v])) > 0
     /\ Sgn(SignedArea(d.integer_vertices[s + 2], d.integer_vertices[s],
                        d.integer_vertices[v])) > 0

\* a step of the walk of delaunay_add_vertex that leaves the assertion
\* count < triangle_index satisfied and ends, if it ends the walk, in a
\* triangle that contains the vertex
WalkStep ==
  (dim = 2 /\ frame.pc = "locate" /\ rounds < MaxRounds
     /\ InsideSuperTriangle(d2, frame.v))
    => /\ ~frame.first => frame.count + 1 < d2.triangle_index
       /\ frame'.pc \in {"locate", "split"}
       /\ frame'.count < d2.triangle_index
       /\ frame'.pc = "split" => Contains2D(d2, frame.v, frame'.t0)

\* C29: for every point inside the super-triangle and every resolution of the
\* random tie-breaks, the walk started at last_triangle reaches a triangle
\* containing v, inside or on an edge, after fewer than triangle_index steps:
\* the assertion count < triangle_index never fails.
C29_WalkBound == [][WalkStep]_vars

\* the triangles of the check queue have the vertex being inserted at slot 2
QueuedTriangles ==
  \A k \in DOMAIN d2.queue : d2.triangles[d2.queue[k]].vertices[2] = frame.v

\* the active tetrahedra of the check queue have the vertex being inserted
\* among their vertices
QueuedTetrahedra ==
  \A k \in DOMAIN d3.tetrahedra_to_check :
    LET T == d3.tetrahedra[d3.tetrahedra_to_check[k]]
    IN T.active = 1 => IndexOfVertex(T, frame.v) < 4

\* the tetrahedron delaunay_check_tetrahedra is about to check is not one
\* that makes delaunay_check_tetrahedron abort
NextCheckContainsVertex ==
  LET q == skip_inactive(d3, d3.tetrahedra_to_check)
  IN q # <<>> => check_tetrahedron_case(d3, Last(q), frame.v).kind # "abort"

\* C30: throughout the insertion of v every active simplex on the check queue
\* has v among its vertices, so that delaunay_check_tetrahedron never aborts
\* on a tetrahedron without the last added vertex; in 2D v is at slot 2 of
\* every queued triangle.
C30_QueuedContainVertex ==
  /\ (dim = 2 /\ InCall) => QueuedTriangles
  /\ (dim = 3 /\ InCall) => QueuedTetrahedra
  /\ (dim = 3 /\ frame.pc = "check") => NextCheckContainsVertex
  /\ frame.pc # "abort"

\* C31 helpers: the popped tetrahedron of the 3D check loop and the orient
\* tests over its faces that contain the inserted vertex, each with the
\* opposite vertex of the neighbour put in the place of the vertex the face
\* leaves out
PoppedTetrahedron == Last(skip_inactive(d3, d3.tetrahedra_to_check))

OppositeOfPopped ==
  LET T == d3.tetrahedra[PoppedTetrahedron]
      top == IndexOfVertex(T, frame.v)
  IN d3.tetrahedra[T.neighbours[top]].vertices[T.index_in_neighbour[top]]

FaceTest(k) ==
  LET T == d3.tetrahedra[PoppedTetrahedron]
      w == [j \in 0..3 |-> IF j = k THEN OppositeOfPopped ELSE T.vertices[j]]
  IN orient_vertices(d3, w[0], w[1], w[2], w[3])

FacesWithVertex ==
  (0..3) \ {IndexOfVertex(d3.tetrahedra[PoppedTetrahedron], frame.v)}

NegativeTests == {k \in FacesWithVertex : FaceTest(k) < 0}
ZeroTests == {k \in FacesWithVertex : FaceTest(k) = 0}
PositiveTests == {k \in FacesWithVertex : FaceTest(k) > 0}

\* C31 as stated: when the popped tetrahedron fails the in-sphere test, the
\* flip is a 2-to-3 flip exactly when the three tests are negative, a 4-to-4
\* candidate exactly when one test is zero and the other two are negative,
\* and a 3-to-2 candidate exactly when exactly one test is positive
C31_FlipClassification ==
  PendingCase3D \in FlipCases3D =>
    /\ PendingCase3D = "2to3" <=> Cardinality(NegativeTests) = 3
    /\ PendingCase3D \in {"4to4", "4to4_deferred"}
         <=> Cardinality(ZeroTests) = 1 /\ Cardinality(NegativeTests) = 2
    /\ PendingCase3D \in {"3to2", "3to2_deferred"}
         <=> Cardinality(PositiveTests) = 1

\* C32 helpers: the edge of the face shared by the popped tetrahedron and
\* its neighbour opposite v that lies on the face of test k, the real
\* tetrahedra around an edge, and the neighbour relation
EdgeOfTest(k) ==
  LET T == d3.tetrahedra[PoppedTetrahedron]
  IN {T.vertices[j] : j \in FacesWithVertex \ {k}}

NeighbourOfPopped ==
  LET T == d3.tetrahedra[PoppedTetrahedron]
  IN T.neighbours[IndexOfVertex(T, frame.v)]

TetrahedraSharing(e) ==
  {x \in RealTetrahedra(d3) :
     e \subseteq {d3.tetrahedra[x].vertices[j] : j \in 0..3}}

AreNeighbours(x, y) ==
  /\ \E j \in 0..3 : d3.tetrahedra[x].neighbours[j] = y
  /\ \E j \in 0..3 : d3.tetrahedra[y].neighbours[j] = x

\* exactly four tetrahedra share the edge e: the popped one, its neighbour
\* and two more that are neighbours of each other
FourAroundEdge(e) ==
  /\ Cardinality(TetrahedraSharing(e)) = 4
  /\ {PoppedTetrahedron, NeighbourOfPopped} \subseteq TetrahedraSharing(e)
  /\ \A x, y \in TetrahedraSharing(e) \ {PoppedTetrahedron, NeighbourOfPopped} :
       x # y => AreNeighbours(x, y)

\* a third tetrahedron on the edge e is a neighbour of the popped one and of
\* its neighbour
ThirdAroundEdge(e) ==
  \E x \in TetrahedraSharing(e) \ {PoppedTetrahedron, NeighbourOfPopped} :
    AreNeighbours(x, PoppedTetrahedron) /\ AreNeighbours(x, NeighbourOfPopped)

\* the pop changes nothing but the queue, which loses the popped tetrahedron
\* and the inactive ones above it
PopOnly ==
  /\ d3'.tetrahedra = d3.tetrahedra
  /\ d3'.tetrahedron_index = d3.tetrahedron_index
  /\ d3'.vertex_tetrahedron_links = d3.vertex_tetrahedron_links
  /\ d3'.vertex_tetrahedron_index = d3.vertex_tetrahedron_index
  /\ d3'.free_tetrahedron_indices = d3.free_tetrahedron_indices
  /\ frame'.freed = frame.freed
  /\ d3'.tetrahedra_to_check = Front(skip_inactive(d3, d3.tetrahedra_to_check))

\* C32 as stated: a 4-to-4 flip is performed only if exactly four tetrahedra
\* share the crossed edge (t, n and two mutual neighbours), a 3-to-2 flip
\* only if a third tetrahedron is a neighbour of both t and n across that
\* edge; when the condition fails the pop leaves the mesh and the free list
\* unchanged and enqueues nothing
C32_FlipStep ==
  /\ PendingCase3D = "4to4" => \E k \in ZeroTests : FourAroundEdge(EdgeOfTest(k))
  /\ PendingCase3D = "3to2" =>
       \E k \in PositiveTests : ThirdAroundEdge(EdgeOfTest(k))
  /\ PendingCase3D = "4to4_deferred" =>
       /\ \A k \in ZeroTests : ~FourAroundEdge(EdgeOfTest(k))
       /\ PopOnly
  /\ PendingCase3D = "3to2_deferred" =>
       /\ \A k \in PositiveTests : ~ThirdAroundEdge(EdgeOfTest(k))
       /\ PopOnly

C32_FlipPreconditions == [][C32_FlipStep]_vars

\* C33 helpers: the face tests of the walk on its current tetrahedron, each
\* the orientation of the tetrahedron with the inserted vertex put in the
\* place of the vertex opposite the face
WalkTest(k) ==
  LET T == d3.tetrahedra[frame.t0]
      w == [j \in 0..3 |-> IF j = k THEN frame.v ELSE T.vertices[j]]
  IN orient_vertices(d3, w[0], w[1], w[2], w[3])

WalkOutside == {k \in 0..3 : WalkTest(k) > 0}
WalkZeros == {k \in 0..3 : WalkTest(k) = 0}

\* the vertices of the current tetrahedron that lie on all faces of WalkZeros
WalkEdge == {d3.tetrahedra[frame.t0].vertices[j] : j \in (0..3) \ WalkZeros}

Listed == d3'.tetrahedra_containing_vertex

\* a round of the walk on a tetrahedron that is not a dummy
WalkRound ==
  IF WalkOutside # {}
    THEN /\ frame'.pc = "locate"
         /\ \E k \in WalkOutside :
              frame'.t0 = d3.tetrahedra[frame.t0].neighbours[k]
  ELSE IF Cardinality(WalkZeros) = 0
    THEN frame'.pc = "split" /\ Listed = <<frame.t0>>
  ELSE IF Cardinality(WalkZeros) = 1
    THEN /\ frame'.pc = "split"
         /\ \E k \in WalkZeros :
              Listed = <<frame.t0, d3.tetrahedra[frame.t0].neighbours[k]>>
  ELSE IF Cardinality(WalkZeros) = 2
    THEN /\ frame'.pc = "split"
         /\ Len(Listed) >= 3
         /\ Listed[1] = frame.t0
         /\ \A i, j \in 1..Len(Listed) : Listed[i] = Listed[j] => i = j
         /\ {Listed[i] : i \in 1..Len(Listed)} = TetrahedraSharing(WalkEdge)
  ELSE frame'.pc = "abort"

\* the tetrahedra that have the vertex v in the tessellation d
TetrahedraOfVertex(d, v) ==
  {x \in RealTetrahedra(d) : \E j \in 0..3 : d.tetrahedra[x].vertices[j] = v}

\* the insertion flip turns the n listed tetrahedra into 4, 6 or 2n
\* tetrahedra around v
SplitRound ==
  LET n == Len(d3.tetrahedra_containing_vertex)
  IN /\ frame'.pc = "check"
     /\ Cardinality(TetrahedraOfVertex(d3', frame.v))
          = IF n = 1 THEN 4 ELSE IF n = 2 THEN 6 ELSE 2 * n
     /\ Cardinality(RealTetrahedra(d3'))
          = Cardinality(RealTetrahedra(d3))
              + (IF n = 1 THEN 3 ELSE IF n = 2 THEN 4 ELSE n)

\* C33 as stated: the walk stops at T exactly when no face test puts v
\* strictly outside T and otherwise steps across a face v is strictly outside
\* of; no zero test gives the list [T], one gives [T, neighbour across the
\* face], two give every tetrahedron around the edge once, at least three,
\* T first, three or more abort; delaunay_add_vertex then applies the 1-to-4,
\* 2-to-6 or n-to-2n flip according to the length of the list
C33_LocateStep ==
  /\ dim = 3 /\ frame.pc = "locate" /\ frame.t0 > 3 /\ rounds' # rounds
       => WalkRound
  /\ dim = 3 /\ frame.pc = "split" /\ rounds' # rounds => SplitRound

C33_LocationOutcome == [][C33_LocateStep]_vars

\* C34 helpers: fan is a rotation around the edge (a0, a1) started in the
\* tetrahedron first: it holds first in front, no tetrahedron twice, only
\* active tetrahedra that are not dummies and have both a0 and a1, and all
\* of those
FanAround(a0, a1, first, fan) ==
  /\ fan # <<>>
  /\ fan[1] = first
  /\ \A i, j \in 1..Len(fan) : fan[i] = fan[j] => i = j
  /\ {fan[i] : i \in 1..Len(fan)} = TetrahedraSharing({a0, a1})

\* the rotation of the point location, on the round of the walk that finds
\* the vertex on an edge of its tetrahedron
LocationRotates ==
  /\ dim = 3 /\ frame.pc = "locate" /\ frame.t0 > 3 /\ rounds' # rounds
  /\ WalkOutside = {} /\ Cardinality(WalkZeros) = 2

LocationFan ==
  /\ frame'.pc = "split"
  /\ \E a0, a1 \in WalkEdge :
       a0 # a1 /\ FanAround(a0, a1, frame.t0, d3'.tetrahedra_containing_vertex)

\* delaunay_get_search_radius may be called for the vertex g
RadiusCallable(g) ==
  /\ dim = 3
  /\ frame.pc = "idle"
  /\ FreeLocal3D(d3) = {}
  /\ g \in InsertedVertices3D(d3)

\* the rotations of delaunay_get_search_radius(d, g), one for every triple
\* of the queue
RadiusFans(g) ==
  LET r == delaunay_get_search_radius(d3, g)
      values == r.d.get_radius_neighbour_info_queue.values
  IN /\ r.status = "ok"
     /\ Len(r.measured) = Len(values)
     /\ \A k \in 1..Len(values) :
          FanAround(g, values[k][2], values[k][1], r.measured[k])

\* the rotations of the sweeps of voronoi_init
VoronoiFans ==
  \A g \in 0..(vor.v.number_of_cells - 1) :
    /\ Len(vor.fans[g + 1]) = Len(vor.swept[g + 1])
    /\ \A k \in 1..Len(vor.swept[g + 1]) :
         FanAround(g, vor.swept[g + 1][k][2], vor.swept[g + 1][k][1],
                   vor.fans[g + 1][k])

C34_Fans ==
  /\ \A g \in 0..(Len(VoronoiGhosts) + VoronoiVertexSize + 5) :
       RadiusCallable(g) => RadiusFans(g)
  /\ GridDone => VoronoiFans

\* C34 as stated: rotating around an interior edge (a0, a1) from a
\* tetrahedron T that has it comes back to T, goes through active
\* tetrahedra that are not dummies and have both a0 and a1 only, and through
\* each of them once; in the point location, in delaunay_get_search_radius
\* and in voronoi_init
C34_EdgeRotation == []C34_Fans /\ [][LocationRotates => LocationFan]_vars

\* C35 helpers: no flag of get_radius_neighbour_flags is set in d
NoRadiusFlag(d) ==
  \A x \in 0..(d.vertex_index - 1) : d.get_radius_neighbour_flags[x] = 0

\* C35 as stated: at the start of the sweep of every generator in
\* voronoi_init, and at entry to and exit from delaunay_get_search_radius,
\* every entry of the neighbour flag array is zero: the flags set in between
\* are those of the generator and of the vertices pushed on the queue, and
\* they are cleared once the queue has drained
C35_FlagHygiene ==
  /\ GridDone =>
       /\ Len(vor.started) = vor.v.number_of_cells
       /\ \A g \in 1..Len(vor.started) : vor.started[g] = {}
       /\ vor.flags = {}
  /\ \A g \in 0..(Len(VoronoiGhosts) + VoronoiVertexSize + 5) :
       RadiusCallable(g) =>
         /\ NoRadiusFlag(d3)
         /\ NoRadiusFlag(delaunay_get_search_radius(d3, g).d)

\* C36 helpers: step A computed a circumcenter for the tetrahedron t, which
\* is active, no dummy and has a generator among its vertices
CircumcenterComputed(t) ==
  /\ t >= 4
  /\ t < d3.tetrahedron_index
  /\ d3.tetrahedra[t].active = 1
  /\ \E j \in 0..3 : d3.tetrahedra[t].vertices[j] \in 0..(d3.vertex_end - 1)
  /\ voronoi_vertices(d3)[t - 4] # NAN

\* C36 as stated: every tetrahedron whose circumcenter is read during the
\* sweeps of voronoi_init is active, has an index of 4 or more and was given
\* a computed circumcenter in step A; no dummy, inactive or skipped slot is
\* read
C36_SentinelsNeverRead ==
  GridDone => \A t \in vor.read : CircumcenterComputed(t)

\* C37 helpers: the slots freed so far by the check loop in progress, and
\* s is the beginning of t
FreedSlots == {frame.freed[i] : i \in 1..Len(frame.freed)}

IsPrefix(s, t) == Len(s) <= Len(t) /\ SubSeq(t, 1, Len(s)) = s

\* a round of the check loop of an insertion
CheckRound == dim = 3 /\ frame.pc = "check" /\ rounds' # rounds

DeferredRelease ==
  /\ \A x \in FreedSlots :
       /\ d3.tetrahedra[x].active = 0
       /\ \A i \in 1..Len(d3.free_tetrahedron_indices) :
            d3.free_tetrahedron_indices[i] # x
       /\ d3'.tetrahedra[x] = d3.tetrahedra[x]
  /\ \A x \in RealTetrahedra(d3) :
       d3'.tetrahedra[x].active = 0 =>
         frame'.pc = "check" /\ frame'.freed = Append(frame.freed, x)
  /\ frame'.pc = "check" =>
       /\ IsPrefix(d3'.free_tetrahedron_indices, d3.free_tetrahedron_indices)
       /\ IsPrefix(frame.freed, frame'.freed)
  /\ frame'.pc = "idle" =>
       /\ skip_inactive(d3, d3.tetrahedra_to_check) = <<>>
       /\ d3'.free_tetrahedron_indices
            = d3.free_tetrahedron_indices \o frame.freed

\* C37 as stated: a slot deactivated by a 3-to-2 flip during the insertion of
\* v goes on the free list only once the check queue of that insertion has
\* drained; delaunay_new_tetrahedron never hands it to a later flip of the
\* same cascade, and an entry for it on the check queue is skipped, not
\* checked
C37_DeferredRelease == [][CheckRound => DeferredRelease]_vars

\* C38: in 3D the free list never names a slot twice and names inactive
\* slots only; a slot freed by the running check loop is inactive and not yet
\* on the list; once delaunay_add_vertex has returned every inactive slot is
\* on the list.  A step deactivates active tetrahedra only, and every slot a
\* step takes off the free list was inactive before the step.
FreeListSlots == SeqRange(d3.free_tetrahedron_indices)

InactiveSlots == {t \in 0..(d3.tetrahedron_index - 1) : d3.tetrahedra[t].active = 0}

NoSlotTwice(s) == \A i, j \in 1..Len(s) : s[i] = s[j] => i = j

C38_Exact ==
  dim = 3 =>
    /\ NoSlotTwice(d3.free_tetrahedron_indices \o frame.freed)
    /\ FreeListSlots \cup FreedSlots = InactiveSlots
    /\ Returned => FreeListSlots = InactiveSlots

C38_Step ==
  dim = 3 =>
    /\ \A x \in SeqRange(frame'.freed) \ FreedSlots : d3.tetrahedra[x].active = 1
    /\ \A x \in FreeListSlots \ SeqRange(d3'.free_tetrahedron_indices) :
         /\ d3.tetrahedra[x].active = 0
         /\ d3'.tetrahedra[x].active = 1

C38_FreelistExactness == []C38_Exact /\ [][C38_Step]_vars

\* C39: after delaunay_init and after every return of delaunay_add_vertex,
\* last_triangle (2D) names a triangle of the mesh that is not a dummy and
\* last_tetrahedron (3D) names an active tetrahedron of the mesh that is not
\* a dummy; all its vertices are vertices of the tessellation, and the next
\* point location starts from it.
SafeToTest2D(d, t) ==
  /\ t \in RealTriangles(d)
  /\ \A i \in 0..2 : d.triangles[t].vertices[i] \in 0..(d.vertex_index - 1)

SafeToTest3D(d, t) ==
  /\ t \in RealTetrahedra(d)
  /\ \A i \in 0..3 : d.tetrahedra[t].vertices[i] \in 0..(d.vertex_index - 1)

WalkStarts == frame.pc = "idle" /\ frame'.pc = "locate"

C39_Start ==
  Returned => /\ dim = 2 => SafeToTest2D(d2, d2.last_triangle)
              /\ dim = 3 => SafeToTest3D(d3, d3.last_tetrahedron)

C39_Walk ==
  WalkStarts => /\ dim = 2 => frame'.t0 = d2.last_triangle
                /\ dim = 3 => frame'.t0 = d3.last_tetrahedron

C39_WalkStartValidity == []C39_Start /\ [][C39_Walk]_vars

\* C40: positive_permutation(a, b, c, d) is true for the even permutations
\* of (0, 1, 2, 3) and false for the odd ones: the answer to every call is
\* "the order has an even number of inversions", twelve orders get the answer
\* true and twelve the answer false, and the answer is true exactly when the
\* vertices taken in that order form a positively ordered tetrahedron again.
Inversions(p) == {ij \in (1..4) \X (1..4) : ij[1] < ij[2] /\ p[ij[1]] > p[ij[2]]}

EvenPermutation(p) == Cardinality(Inversions(p)) % 2 = 0

Asked == geo.fn = "positive_permutation"

C40_PositivePermutation ==
  Asked =>
    /\ geo.order \in IndexOrders
    /\ geo.positive = EvenPermutation(geo.order)
    /\ Cardinality({p \in IndexOrders : positive_permutation(p[1], p[2], p[3], p[4])}) = 12
    /\ Cardinality({p \in IndexOrders : ~positive_permutation(p[1], p[2], p[3], p[4])}) = 12
    /\ geo.positive = (orient_vertices(geo.pts, geo.order[1], geo.order[2],
                                       geo.order[3], geo.order[4]) < 0)

-----------------------------------------------------------------------------
(* States in which the claims are put to work *)

\* a 3D insertion on an axis (n-to-2n flip) followed by a 2-to-3 flip has
\* returned
C1_Witness ==
  Returned /\ dim = 3 /\ "nto2n" \in cases /\ "2to3" \in cases

\* a 3D insertion during which a 4-to-4 candidate was deferred has returned
\* and left adjacent tetrahedra
C2_Witness ==
  /\ Returned /\ dim = 3 /\ "4to4_deferred" \in cases
  /\ \E t \in RealTetrahedra(d3) : \E i \in 0..3 : d3.tetrahedra[t].neighbours[i] > 3

\* a 2D insertion has returned and left two adjacent triangles whose four
\* vertices are cocircular
C3_Witness ==
  /\ Returned /\ dim = 2 /\ cases # {}
  /\ \E t \in RealTriangles(d2) : \E i \in 0..2 :
       d2.triangles[t].neighbours[i] > 2 /\ OppositeInSphere2D(d2, t, i) = 0

\* a 3D insertion that went through a 4-to-4 flip and an insertion that went
\* through a 3-to-2 flip have returned
C4_Witness ==
  /\ Returned /\ dim = 3 /\ "3to2" \in cases
  /\ Cardinality(InsertedVertices3D(d3)) = MaxInsert

\* a 2D insertion on an edge (2-to-4 split) followed by an edge flip has
\* returned
C5_Witness == Returned /\ dim = 2 /\ "2to4" \in cases /\ "flip" \in cases

\* a 3D insertion has returned after a 3-to-2 flip, which deactivates a
\* tetrahedron, and after a 4-to-4 flip, which overwrites four
C6_Witness == Returned /\ dim = 3 /\ "3to2" \in cases /\ "4to4" \in cases

\* a 3D insertion has returned and left an inactive slot
C7_Witness ==
  /\ Returned /\ dim = 3
  /\ \E t \in 4..(d3.tetrahedron_index - 1) : d3.tetrahedra[t].active = 0

\* a 3D insertion during which a 3-to-2 candidate was deferred has returned
C8_Witness == Returned /\ dim = 3 /\ "3to2_deferred" \in cases /\ QueueEmpty


\* a run has inserted MaxInsert points in general position in an order that
\* is not the sorted one
C9_Witness ==
  /\ Returned
  /\ \/ /\ dim = 2 /\ GeneralPosition2D(d2)
        /\ Cardinality(InsertedVertices2D(d2)) = MaxInsert
        /\ InsertionOrder2D(d2) # SortedPoints(InsertedPoints2D(d2))
        /\ "flip" \in cases
     \/ /\ dim = 3 /\ GeneralPosition3D(d3)
        /\ Cardinality(InsertedVertices3D(d3)) = MaxInsert
        /\ InsertionOrder3D(d3) # SortedPoints(InsertedPoints3D(d3))
        /\ "2to3" \in cases

\* an insertion after the one whose 3-to-2 flip vacated a slot has taken the
\* slot from the free list and has returned
C11_Witness ==
  Returned /\ dim = 3 /\ "reuse" \in cases /\ d3.free_tetrahedron_indices = <<>>

C14_Witness ==
  /\ GridDone
  /\ d3.last_tetrahedron >= 4
  /\ d3.free_tetrahedron_indices # <<>>
  /\ vor.v.pair_index[1] > 0

C16_Witness ==
  /\ GridDone
  /\ vor.v.pairs[0] # <<>>
  /\ vor.v.pairs[1] # <<>>
  /\ \E g, a \in 0..(vor.v.number_of_cells - 1) :
       /\ g < a
       /\ \E k \in 1..Len(Popped(g)) : Popped(g)[k] = a
       /\ \E k \in 1..Len(Popped(a)) : Popped(a)[k] = g

\* a sweep has popped six neighbours, pushed from several tetrahedra
C17_Witness ==
  /\ GridDone
  /\ \E g \in 0..(vor.v.number_of_cells - 1) :
       /\ vor.v.cells[g].nface = 6
       /\ Cardinality({vor.swept[g + 1][k][1] : k \in 1..6}) > 2

\* the walk of a duplicate has moved through several simplices and aborted:
\* a duplicate of an inserted vertex, after other insertions
C19_Witness ==
  /\ frame.pc = "abort"
  /\ cases = {"duplicate"}
  /\ rounds >= 3
  /\ Mesh.vertex_index > InitVertexSize + dim + 3

\* the state delaunay_init leaves, the tetrahedron array grown on the way
C20_Witness ==
  /\ Bootstrapped
  /\ Mesh.ghost_offset = 0
  /\ Mesh.integer_vertices[0] = <<>>
  /\ dim = 3 => d3.tetrahedron_size > InitSimplexSize

\* every kind of split has been applied: the last one in 3D on an edge
C21_Witness ==
  /\ frame.pc = "check"
  /\ rounds > 0
  /\ \/ dim = 2 /\ cases = {"2to4"} /\ Len(d2.queue) = 4
     \/ dim = 3 /\ cases = {"nto2n"} /\ Len(d3.tetrahedra_to_check) >= 6


\* two insertions, one of them on an edge, with an edge flip
C22_Witness ==
  /\ dim = 2
  /\ Returned
  /\ Cardinality(InsertedVertices2D(d2)) >= 2
  /\ d2.triangle_index >= 8
  /\ "2to4" \in cases
  /\ "flip" \in cases


\* geometry_in_sphere_exact has returned 0 for five different points on a
\* common sphere, no four of them in a common plane
C23_Witness ==
  /\ geo.fn = "in_sphere"
  /\ geo.sign = 0
  /\ Cardinality(SeqRange(geo.args)) = 5
  /\ \A j \in 1..5 :
       ~Coplanar(FourOf(geo.args, j)[1], FourOf(geo.args, j)[2],
                 FourOf(geo.args, j)[3], FourOf(geo.args, j)[4])

\* geometry_orient_exact has returned +1 on an object that holds what a call
\* of geometry_in_sphere_exact on other coordinates has left
C25_Witness ==
  /\ geo.fn = "orient"
  /\ geo.sign = 1
  /\ <<geo.g["eix"], geo.g["eiy"], geo.g["eiz"]>> = geo.args[1]
  /\ geo.g["tmp2"] # 0
  /\ \E f \in LeftByInSphere : geo.g[f] # 0 /\ geo.g[f] # geo.g["result"]


\* a tetrahedron of the mesh with a vertex strictly inside its sphere, one
\* with a vertex strictly outside and one with a vertex of another
\* tetrahedron on its sphere
C24_Witness ==
  /\ dim = 3
  /\ \E t \in RealTetrahedra(d3) : \E e \in PlacedVertices3D :
       Orientation3D(d3, t) < 0 /\ SidePosition(t, e) < 0
  /\ \E t \in RealTetrahedra(d3) : \E e \in PlacedVertices3D :
       Orientation3D(d3, t) < 0 /\ SidePosition(t, e) > 0
  /\ \E t \in RealTetrahedra(d3) : \E e \in PlacedVertices3D :
       /\ SidePosition(t, e) = 0
       /\ \A i \in 0..3 : d3.tetrahedra[t].vertices[i] # e



\* an update has given a local vertex a radius and the tessellation has grown
\* since: one of the radii asked leaves the vertex alone although its
\* triangles have changed, another has it recomputed to a value within that
\* radius (not counted), a third to a value beyond it (counted)
C27_Witness ==
  /\ RadiiReadable
  /\ \E i \in LocalVertices2D(d2) :
       /\ d2.search_radii[i] # DBL_MAX
       /\ ~LargestDiameter(d2, IncidentTriangles(d2, i), d2.search_radii[i])
       /\ \E r1, r2, r3 \in SearchRadii :
            /\ ~radius_gt(d2.search_radii[i], radius_of(r1))
            /\ radius_gt(d2.search_radii[i], radius_of(r2))
            /\ ~radius_gt(delaunay_update_search_radii(d2, r2).d.search_radii[i],
                          radius_of(r2))
            /\ delaunay_update_search_radii(d2, r2).count = 0
            /\ radius_gt(delaunay_update_search_radii(d2, r3).d.search_radii[i],
                         radius_of(r3))
            /\ delaunay_update_search_radii(d2, r3).count > 0


\* the test has returned 0 for a vertex beyond two edges of a
\* counterclockwise triangle, with the neighbour across the second of them
C28_Witness ==
  /\ dim = 2
  /\ frame.pc = "tested"
  /\ frame.flag = 0
  /\ Orientation2D(d2, frame.t0) > 0
  /\ EdgesOfSign(d2, frame.v, frame.t0, -1) = {0, 2}
  /\ EdgesOfSign(d2, frame.v, frame.t0, 1) = {1}
  /\ frame.t1 = d2.triangles[frame.t0].neighbours[2]


\* the walk has ended on an edge of a triangle after four steps or more, for
\* a vertex inside the super-triangle
C29_Witness ==
  /\ dim = 2
  /\ frame.pc = "split"
  /\ frame.flag = 2
  /\ frame.count >= 4
  /\ InsideSuperTriangle(d2, frame.v)
  /\ Contains2D(d2, frame.v, frame.t0)


\* a tetrahedron that a 3-to-2 flip has freed is still on the check queue,
\* among active ones
C30_Witness ==
  /\ dim = 3
  /\ frame.pc = "check"
  /\ "3to2" \in cases
  /\ \E k \in DOMAIN d3.tetrahedra_to_check :
       d3.tetrahedra[d3.tetrahedra_to_check[k]].active = 0
  /\ \E k \in DOMAIN d3.tetrahedra_to_check :
       d3.tetrahedra[d3.tetrahedra_to_check[k]].active = 1


\* C31: a 3-to-2 candidate with one positive test is about to be handled in
\* an insertion that has already met a 2-to-3 flip and a 4-to-4 candidate
C31_Witness ==
  /\ PendingCase3D \in {"3to2", "3to2_deferred"}
  /\ Cardinality(PositiveTests) = 1
  /\ "2to3" \in cases
  /\ cases \cap {"4to4", "4to4_deferred"} # {}


\* C32: a 3-to-2 flip is about to be performed in an insertion that has
\* already performed a 4-to-4 flip and deferred a 3-to-2 candidate
C32_Witness ==
  /\ {"3to2_deferred", "4to4"} \subseteq cases
  /\ PendingCase3D = "3to2"
  /\ \E k \in PositiveTests : ThirdAroundEdge(EdgeOfTest(k))


\* C33: the walk has stopped on an edge, the list held more than three
\* tetrahedra and the n-to-2n flip has put twice as many around the vertex
C33_Witness ==
  /\ dim = 3
  /\ frame.pc = "check"
  /\ cases = {"nto2n"}
  /\ Cardinality(TetrahedraOfVertex(d3, frame.v)) > 6


\* C34: the grid is built with a face of more than three vertices, a search
\* radius has been asked for and a vertex was inserted on an edge
C34_Witness ==
  /\ GridDone
  /\ d3.get_radius_neighbour_info_queue.end > 0
  /\ \E v \in InsertedVertices3D(d3) : UserPoint3D(d3, v) \in GhostsOnEdges
  /\ \E g \in 0..(vor.v.number_of_cells - 1) :
       \E k \in 1..Len(vor.fans[g + 1]) : Len(vor.fans[g + 1][k]) > 3


\* C35: the grid is built after more than one sweep, and a search radius
\* has been computed with more than three vertices pushed on the queue
C35_Witness ==
  /\ GridDone
  /\ Len(vor.started) > 1
  /\ \A g \in 1..Len(vor.swept) : Len(vor.swept[g]) > 3
  /\ frame.pc = "idle"
  /\ d3.get_radius_neighbour_info_queue.end > 3
  /\ d3.get_radius_neighbour_info_queue.start
       = d3.get_radius_neighbour_info_queue.end
  /\ NoRadiusFlag(d3)


\* C36: the grid is built from a tessellation that has a skipped and an
\* inactive tetrahedron, and the sweeps have read more than four
\* circumcenters
C36_Witness ==
  /\ GridDone
  /\ Cardinality(vor.read) > 4
  /\ \E t \in 4..(d3.tetrahedron_index - 1) : d3.tetrahedra[t].active = 0
  /\ \E t \in RealTetrahedra(d3) : voronoi_vertices(d3)[t - 4] = NAN


\* C37: a slot freed by a 3-to-2 flip is on top of the check queue and the
\* tetrahedron below it is about to be flipped
C37_Witness ==
  /\ dim = 3
  /\ frame.pc = "check"
  /\ d3.tetrahedra_to_check # <<>>
  /\ Last(d3.tetrahedra_to_check) \in FreedSlots
  /\ PendingCase3D \in FlipCases3D


\* a slot vacated by a 3-to-2 flip has been handed out again, a later flip
\* has vacated a slot, and the insertion has returned
C38_Witness ==
  /\ Returned /\ dim = 3 /\ "reuse" \in cases
  /\ d3.free_tetrahedron_indices # <<>>


\* a 3D insertion with a 3-to-2 flip has returned and has left a vacated
\* slot with an index above the guess for the next insertion
C39_Witness ==
  /\ Returned /\ dim = 3
  /\ d3.free_tetrahedron_indices # <<>>
  /\ d3.last_tetrahedron < Last(d3.free_tetrahedron_indices)
  /\ "3to2" \in cases


\* positive_permutation was asked about an odd order, the caller exchanged
\* the first two indices and asked again about an order of the last case
C40_Witness ==
  /\ Asked /\ geo.swapped
  /\ (geo.order[1] + 3) % 4 = geo.order[2]
  /\ geo.positive

=============================================================================
